---- MODULE Spec2Model ----
(***************************************************************************)
(* Voice ordering: the conversation engine (advanceConversation and its    *)
(* order mutator and lexical matcher) and the order validator/pricer       *)
(* (validateOrder).                                                        *)
(*                                                                         *)
(* Money is held in whole cents.  Texts are sequences of one-character     *)
(* strings, so that substring search, tokenisation and lower-casing are    *)
(* computed as the code computes them.  Timestamps (createdAt, updatedAt,  *)
(* lastUpdated, turn ids and turn timestamps) are left out of the records; *)
(* the clock is kept only where it makes an identifier (line ids).         *)
(***************************************************************************)
EXTENDS Integers, Sequences, FiniteSets, TLC

\* ------------------------------------------------------------------ bounds
\* advanceConversation calls modelled in one behaviour
MaxCalls == 2

\* ------------------------------------------------------- generic helpers
\* Array.prototype.find / findIndex: index of the first element passing
\* the test, 0 when there is none
FindFirst(s, Test(_)) ==
  LET I == {i \in 1..Len(s) : Test(s[i])}
  IN IF I = {} THEN 0 ELSE CHOOSE i \in I : \A j \in I : i <= j

RECURSIVE SumSeq(_)
SumSeq(s) == IF s = <<>> THEN 0 ELSE Head(s) + SumSeq(Tail(s))

\* Array.prototype.join(" ") over message fragments: the messages in order
RECURSIVE JoinMessages(_)
JoinMessages(ms) ==
  IF ms = <<>> THEN <<>>
  ELSE IF Len(ms) = 1 THEN Head(ms)
  ELSE Head(ms) \o <<" ">> \o JoinMessages(Tail(ms))

\* a toFixed that cuts the digits off instead of rounding
ToFixed2Truncates(num, den, up) == num \div den

\* Number(x.toFixed(2)) of the exact quotient num/den of cents (den > 0):
\* the nearest whole cent.  toFixed works on the binary double, so on an
\* exact half cent the build may round either way; up says which.
ToFixed2(num, den, up) ==
  LET fl == num \div den
      r2 == 2 * (num - fl * den)
  IN IF r2 < den THEN fl
     ELSE IF r2 > den THEN fl + 1
     ELSE IF up THEN fl + 1 ELSE fl

IsTie(num, den) == 2 * (num - (num \div den) * den) = den

\* --------------------------------------------------------- text handling
Digits == {"0", "1", "2", "3", "4", "5", "6", "7", "8", "9"}
LowerLetters == {"a", "b", "c", "d", "e", "f", "g", "h", "i", "j", "k", "l", "m",
                 "n", "o", "p", "q", "r", "s", "t", "u", "v", "w", "x", "y", "z"}
UpperToLower ==
  ("A" :> "a") @@ ("B" :> "b") @@ ("C" :> "c") @@ ("D" :> "d") @@ ("E" :> "e") @@ ("F" :> "f") @@ 
  ("G" :> "g") @@ ("H" :> "h") @@ ("I" :> "i") @@ ("J" :> "j") @@ ("K" :> "k") @@ ("L" :> "l") @@ ("M" :> "m") @@ 
  ("N" :> "n") @@ ("O" :> "o") @@ ("P" :> "p") @@ ("Q" :> "q") @@ ("R" :> "r") @@ ("S" :> "s") @@ 
  ("T" :> "t") @@ ("U" :> "u") @@ ("V" :> "v") @@ ("W" :> "w") @@ ("X" :> "x") @@ ("Y" :> "y") @@ ("Z" :> "z")

\* String.prototype.toLowerCase on the characters used here
ToLowerCase(s) ==
  LET f == [i \in 1..Len(s) |->
              IF s[i] \in DOMAIN UpperToLower THEN UpperToLower[s[i]] ELSE s[i]]
  IN SubSeq(f, 1, Len(s))

\* String.prototype.includes
Includes(s, t) ==
  \E i \in 0..(Len(s) - Len(t)) : SubSeq(s, i + 1, i + Len(t)) = t

\* s.split(/[^a-z0-9]+/).filter(Boolean): the maximal runs of [a-z0-9]
IsTokenChar(c) == c \in LowerLetters \cup Digits

RECURSIVE SplitFrom(_, _, _, _)
SplitFrom(s, i, cur, acc) ==
  IF i > Len(s) THEN (IF cur = <<>> THEN acc ELSE Append(acc, cur))
  ELSE IF IsTokenChar(s[i]) THEN SplitFrom(s, i + 1, Append(cur, s[i]), acc)
  ELSE SplitFrom(s, i + 1, <<>>,
                 IF cur = <<>> THEN acc ELSE Append(acc, cur))

SplitTokens(s) == SplitFrom(s, 1, <<>>, <<>>)

\* the finalize pattern without its i flag
FinalizeIntentCaseSensitive(userText) ==
  \/ Includes(userText, <<"c","o","n","f","i","r","m">>)
  \/ Includes(userText, <<"p","l","a","c","e"," ","o","r","d","e","r">>)

\* /confirm|place order/i.test(userText)
FinalizeIntent(userText) ==
  \/ Includes(ToLowerCase(userText), <<"c","o","n","f","i","r","m">>)
  \/ Includes(ToLowerCase(userText),
              <<"p","l","a","c","e"," ","o","r","d","e","r">>)

\* a matcher that takes the full name only
MatchesMenuItemFullNameOnly(normalizedText, itemName) ==
  Includes(normalizedText, ToLowerCase(itemName))

\* ------------------------------------------------- lexical item matcher
MatchesMenuItem(normalizedText, itemName) ==
  LET normalizedName == ToLowerCase(itemName)
      nameTokens == SplitTokens(normalizedName)
  IN \/ Includes(normalizedText, normalizedName)
     \/ \E k \in 1..Len(nameTokens) :
          Len(nameTokens[k]) >= 3 /\ Includes(normalizedText, nameTokens[k])

\* the number words, in the order of the regular expressions' alternation
wordNumbers == <<
  [w |-> <<"u","n">>, n |-> 1],
  [w |-> <<"u","n","a">>, n |-> 1],
  [w |-> <<"u","n","o">>, n |-> 1],
  [w |-> <<"d","o","s">>, n |-> 2],
  [w |-> <<"t","r","e","s">>, n |-> 3],
  [w |-> <<"c","u","a","t","r","o">>, n |-> 4],
  [w |-> <<"c","i","n","c","o">>, n |-> 5],
  [w |-> <<"s","e","i","s">>, n |-> 6],
  [w |-> <<"s","i","e","t","e">>, n |-> 7],
  [w |-> <<"o","c","h","o">>, n |-> 8],
  [w |-> <<"n","u","e","v","e">>, n |-> 9],
  [w |-> <<"d","i","e","z">>, n |-> 10],
  [w |-> <<"o","n","c","e">>, n |-> 11],
  [w |-> <<"d","o","c","e">>, n |-> 12],
  [w |-> <<"t","r","e","c","e">>, n |-> 13],
  [w |-> <<"c","a","t","o","r","c","e">>, n |-> 14],
  [w |-> <<"q","u","i","n","c","e">>, n |-> 15],
  [w |-> <<"d","i","e","c","i","s","e","i","s">>, n |-> 16],
  [w |-> <<"d","i","e","c","i","s","i","e","t","e">>, n |-> 17],
  [w |-> <<"d","i","e","c","i","o","c","h","o">>, n |-> 18],
  [w |-> <<"d","i","e","c","i","n","u","e","v","e">>, n |-> 19],
  [w |-> <<"v","e","i","n","t","e">>, n |-> 20],
  [w |-> <<"v","e","i","n","t","i","u","n","o">>, n |-> 21],
  [w |-> <<"v","e","i","n","t","i","d","o","s">>, n |-> 22],
  [w |-> <<"v","e","i","n","t","i","t","r","e","s">>, n |-> 23],
  [w |-> <<"v","e","i","n","t","i","c","u","a","t","r","o">>, n |-> 24],
  [w |-> <<"v","e","i","n","t","i","c","i","n","c","o">>, n |-> 25],
  [w |-> <<"v","e","i","n","t","i","s","e","i","s">>, n |-> 26],
  [w |-> <<"v","e","i","n","t","i","s","i","e","t","e">>, n |-> 27],
  [w |-> <<"v","e","i","n","t","i","o","c","h","o">>, n |-> 28],
  [w |-> <<"v","e","i","n","t","i","n","u","e","v","e">>, n |-> 29],
  [w |-> <<"t","r","e","i","n","t","a">>, n |-> 30],
  [w |-> <<"c","u","a","r","e","n","t","a">>, n |-> 40],
  [w |-> <<"c","i","n","c","u","e","n","t","a">>, n |-> 50],
  [w |-> <<"s","e","s","e","n","t","a">>, n |-> 60],
  [w |-> <<"s","e","t","e","n","t","a">>, n |-> 70],
  [w |-> <<"o","c","h","e","n","t","a">>, n |-> 80],
  [w |-> <<"n","o","v","e","n","t","a">>, n |-> 90]
>>

\* ---------------------------------------------------- quantity extraction
\* \w of the regular expressions, \s on the characters used here
IsWordChar(c) == c \in LowerLetters \cup Digits \cup DOMAIN UpperToLower \cup {"_"}
IsSpace(c) == c = " "

WordAt(s, k) == k \in 1..Len(s) /\ IsWordChar(s[k])

\* \b at offset i (between character i and character i+1)
Boundary(s, i) == WordAt(s, i) # WordAt(s, i + 1)

\* t is found in s right after offset i
StartsAt(s, i, t) == i + Len(t) <= Len(s) /\ SubSeq(s, i + 1, i + Len(t)) = t

RECURSIVE SpaceRun(_, _)
SpaceRun(s, i) ==
  IF i + 1 <= Len(s) /\ IsSpace(s[i + 1]) THEN 1 + SpaceRun(s, i + 1) ELSE 0

RECURSIVE DigitRun(_, _)
DigitRun(s, i) ==
  IF i + 1 <= Len(s) /\ s[i + 1] \in Digits THEN 1 + DigitRun(s, i + 1) ELSE 0

\* the name pattern tok1\s+tok2\s+... matched from offset p: the offset of
\* its end, -1 when it does not match there
RECURSIVE NameEnd(_, _, _)
NameEnd(s, p, tokens) ==
  LET t == Head(tokens)
      e == p + Len(t)
  IN IF ~StartsAt(s, p, t) THEN -1
     ELSE IF Len(tokens) = 1 THEN e
     ELSE IF SpaceRun(s, e) = 0 THEN -1
     ELSE NameEnd(s, e + SpaceRun(s, e), Tail(tokens))

\* what the group (\d+|un|una|...) can capture at offset i, in the order
\* the regular expression engine tries it: the digit run, longest first,
\* then the number words in the order of the alternation
NumCandidates(s, i) ==
  LET d == DigitRun(s, i)
      ws == IF i + 1 <= Len(s) /\ s[i + 1] \in LowerLetters
            THEN SelectSeq(wordNumbers, LAMBDA e : StartsAt(s, i, e.w))
            ELSE <<>>
  IN [k \in 1..d |-> SubSeq(s, i + 1, i + d - k + 1)]
     \o [k \in 1..Len(ws) |-> ws[k].w]

\* \s*(?:x)?\s*NAME\b from offset j
RestBefore(s, j, tokens) ==
  \E a \in 0..SpaceRun(s, j) : \E x \in {0, 1} :
    /\ x = 1 => StartsAt(s, j + a, <<"x">>)
    /\ \E b \in 0..SpaceRun(s, j + a + x) :
         LET e == NameEnd(s, j + a + x + b, tokens)
         IN e # -1 /\ Boundary(s, e)

\* group 1 of normalizedText.match(beforeName), <<>> when there is no match
MatchBefore(s, tokens) ==
  LET Ok(i, c) == RestBefore(s, i + Len(c), tokens)
      Hit(i) == LET cs == NumCandidates(s, i)
                IN IF ~Boundary(s, i) THEN 0
                   ELSE FindFirst(cs, LAMBDA c : Ok(i, c))
      Starts == {i \in 0..Len(s) : Hit(i) # 0}
  IN IF Starts = {} THEN <<>>
     ELSE LET i == CHOOSE i \in Starts : \A j \in Starts : i <= j
          IN NumCandidates(s, i)[Hit(i)]

\* where the group of afterName can start once NAME has matched up to
\* offset e: after \s*(?:x)?\s*
AfterGroupStarts(s, e) ==
  {p \in 0..Len(s) :
     \E a \in 0..SpaceRun(s, e) : \E x \in {0, 1} :
       /\ x = 1 => StartsAt(s, e + a, <<"x">>)
       /\ p - (e + a + x) \in 0..SpaceRun(s, e + a + x)}

\* group 1 of normalizedText.match(afterName), <<>> when there is no match.
\* The group can start at one offset only (a number never starts with a
\* space or an x), so the first candidate there that ends on \b is it.
MatchAfter(s, tokens) ==
  LET Ok(p, c) == Boundary(s, p + Len(c))
      First(p) == FindFirst(NumCandidates(s, p), LAMBDA c : Ok(p, c))
      Hits(i) == IF ~Boundary(s, i) \/ NameEnd(s, i, tokens) = -1 THEN {}
                 ELSE {p \in AfterGroupStarts(s, NameEnd(s, i, tokens)) :
                         First(p) # 0}
      Starts == {i \in 0..Len(s) : Hits(i) # {}}
  IN IF Starts = {} THEN <<>>
     ELSE LET i == CHOOSE i \in Starts : \A j \in Starts : i <= j
              p == CHOOSE p \in Hits(i) : TRUE
          IN NumCandidates(s, p)[First(p)]

IsDigits(t) == Len(t) > 0 /\ \A k \in 1..Len(t) : t[k] \in Digits

DigitValue(c) == CHOOSE n \in 0..9 : ToString(n) = c

\* Number(token) of a run of digits
RECURSIVE DigitsToNumber(_)
DigitsToNumber(t) ==
  IF t = <<>> THEN 0
  ELSE 10 * DigitsToNumber(SubSeq(t, 1, Len(t) - 1)) + DigitValue(t[Len(t)])

\* wordNumbers[token], 0 when the token is not a key
WordNumber(t) ==
  LET k == FindFirst(wordNumbers, LAMBDA e : e.w = t)
  IN IF k = 0 THEN 0 ELSE wordNumbers[k].n

Max(a, b) == IF a >= b THEN a ELSE b
Min(a, b) == IF a <= b THEN a ELSE b

\* n || other
NonZeroOr(n, other) == IF n # 0 THEN n ELSE other

\* the scan of the token window around the first name token
RECURSIVE WindowScan(_, _, _)
WindowScan(textTokens, i, windowEnd) ==
  IF i >= windowEnd THEN 1
  ELSE IF IsDigits(textTokens[i + 1])
  THEN Max(1, DigitsToNumber(textTokens[i + 1]))
  ELSE NonZeroOr(WordNumber(textTokens[i + 1]),
                 WindowScan(textTokens, i + 1, windowEnd))

\* matchBefore?.[1] || matchAfter?.[1]
FirstMatch(matchBefore, matchAfter) ==
  IF matchBefore # <<>> THEN matchBefore ELSE matchAfter

\* Number.isFinite(parsed) ? Math.max(1, parsed) : wordNumbers[match] || 1
MatchQuantity(match) ==
  IF IsDigits(match) THEN Max(1, DigitsToNumber(match))
  ELSE NonZeroOr(WordNumber(match), 1)

\* the fallback on the tokens: the window around index, 1 without one
WindowQuantity(textTokens, index) ==
  IF index >= 0
  THEN WindowScan(textTokens, Max(0, index - 3),
                  Min(Len(textTokens), index + 4))
  ELSE 1

\* textTokens.findIndex((token) => nameTokens.includes(token))
NameTokenIndex(textTokens, nameTokens) ==
  FindFirst(textTokens,
            LAMBDA token : \E k \in 1..Len(nameTokens) :
                             nameTokens[k] = token) - 1

\* the quantity once the two regular expressions have run
QuantityFrom(match, textTokens, nameTokens) ==
  IF match # <<>> THEN MatchQuantity(match)
  ELSE WindowQuantity(textTokens, NameTokenIndex(textTokens, nameTokens))

\* extractQuantity on the tokens of the item name
ExtractQuantityOf(normalizedText, nameTokens) ==
  QuantityFrom(IF nameTokens = <<>> THEN <<>>
               ELSE FirstMatch(MatchBefore(normalizedText, nameTokens),
                               MatchAfter(normalizedText, nameTokens)),
               SplitTokens(normalizedText), nameTokens)

ExtractQuantity(normalizedText, itemName) ==
  ExtractQuantityOf(normalizedText, SplitTokens(ToLowerCase(itemName)))

\* -------------------------------------------------------------- the menu
NoItem == [id |-> "none"]

BurgerName ==
  <<"C","l","a","s","s","i","c"," ","B","u","r","g","e","r">>
FriesName  == <<"F","r","e","n","c","h"," ","F","r","i","e","s">>
CheeseName ==
  <<"C","h","e","e","s","e"," ","S","e","l","e","c","t","i","o","n">>

CheeseGroup(swissAvailable) ==
  [id |-> "cheese_group", name |-> CheeseName,
   minSelection |-> 0, maxSelection |-> 1,
   options |-> << [id |-> "cheddar", name |-> "Cheddar",
                   priceAdjustment |-> 100, isAvailable |-> TRUE],
                  [id |-> "swiss", name |-> "Swiss",
                   priceAdjustment |-> 150, isAvailable |-> swissAvailable] >>]

Burger(available, swissAvailable) ==
  [id |-> "burger_classic", name |-> BurgerName, basePrice |-> 1000,
   isAvailable |-> available,
   modifierGroups |-> << CheeseGroup(swissAvailable) >>]

Fries(available, basePrice) ==
  [id |-> "fries_side", name |-> FriesName, basePrice |-> basePrice,
   isAvailable |-> available, modifierGroups |-> <<>>]

\* the snapshots the menu source can hand out
MenuAll      == << Burger(TRUE, TRUE), Fries(TRUE, 400) >>
MenuFriesOut == << Burger(TRUE, FALSE), Fries(FALSE, 399) >>
Menus == {MenuAll, MenuFriesOut}

\* the menu POST /api/order validates against
CURRENT_MENU == MenuAll

\* ------------------------------------------------------- order validator
TaxRatePercent == 8

ItemNotFoundError(item) ==
  [code |-> "ITEM_NOT_FOUND",
   message |-> <<"Menu item with ID '", item.menuItemId, "' not found.">>,
   itemId |-> item.id, menuItemId |-> item.menuItemId]

ItemUnavailableError(item, menuDef) ==
  [code |-> "ITEM_UNAVAILABLE",
   message |-> <<"Item '">> \o menuDef.name
               \o <<"' is currently unavailable.">>,
   itemId |-> item.id, menuItemId |-> item.menuItemId]

ModifierRequiredError(item, group) ==
  [code |-> "MODIFIER_REQUIRED",
   message |-> <<"Selection required for '">> \o group.name \o <<"'.">>,
   itemId |-> item.id, menuItemId |-> item.menuItemId]

\* a maximum check that reports its defect as the minimum check does
TooManyErrorAsRequired(item, group) ==
  [code |-> "MODIFIER_REQUIRED",
   message |-> <<"Selection required for '">> \o group.name \o <<"'.">>,
   itemId |-> item.id, menuItemId |-> item.menuItemId]

TooManyError(item, group) ==
  [code |-> "MODIFIER_INVALID",
   message |-> <<"Too many selections for '">> \o group.name
               \o <<"'. Max allowed: ", ToString(group.maxSelection), ".">>,
   itemId |-> item.id, menuItemId |-> item.menuItemId]

InvalidOptionError(item, group, optionId) ==
  [code |-> "MODIFIER_INVALID",
   message |-> <<"Invalid option ID '", optionId, "' for group '">>
               \o group.name \o <<"'.">>,
   itemId |-> item.id, menuItemId |-> item.menuItemId]

OptionUnavailableError(item, optionDef) ==
  [code |-> "MODIFIER_INVALID",
   message |-> <<"Option '", optionDef.name, "' is currently unavailable.">>,
   itemId |-> item.id, menuItemId |-> item.menuItemId]

\* selections that are not grouped by their group id
UserSelectedOptionIdsUngrouped(item, group) ==
  [i \in 1..Len(item.selectedModifiers) |->
     item.selectedModifiers[i].optionId]

\* userSelectionsByGroup.get(group.id) || []
UserSelectedOptionIds(item, group) ==
  LET sel == SelectSeq(item.selectedModifiers,
                       LAMBDA m : m.groupId = group.id)
  IN [i \in 1..Len(sel) |-> sel[i].optionId]

\* the loop over the selected option ids of one group;
\* acc = [errors, unitPrice, mods]
RECURSIVE ValidateOptions(_, _, _, _)
ValidateOptions(item, group, optionIds, acc) ==
  IF optionIds = <<>> THEN acc
  ELSE
    LET optionId == Head(optionIds)
        k == FindFirst(group.options, LAMBDA o : o.id = optionId)
    IN IF k = 0
       THEN ValidateOptions(item, group, Tail(optionIds),
              [acc EXCEPT !.errors =
                 Append(@, InvalidOptionError(item, group, optionId))])
       ELSE
         LET optionDef == group.options[k]
             errs == IF optionDef.isAvailable THEN acc.errors
                     ELSE Append(acc.errors,
                                 OptionUnavailableError(item, optionDef))
         IN ValidateOptions(item, group, Tail(optionIds),
              [errors |-> errs,
               unitPrice |-> acc.unitPrice + optionDef.priceAdjustment,
               mods |-> Append(acc.mods,
                         [groupId |-> group.id, optionId |-> optionDef.id,
                          name |-> optionDef.name,
                          priceAdjustment |-> optionDef.priceAdjustment])])

\* a validator that looks at no modifier group
ValidateGroupsSkipped(item, groups, acc) == acc

\* the loop over the menu item's modifier groups
RECURSIVE ValidateGroups(_, _, _)
ValidateGroups(item, groups, acc) ==
  IF groups = <<>> THEN acc
  ELSE
    LET group == Head(groups)
        ids == UserSelectedOptionIds(item, group)
        e1 == IF Len(ids) < group.minSelection
              THEN Append(acc.errors, ModifierRequiredError(item, group))
              ELSE acc.errors
        e2 == IF Len(ids) > group.maxSelection
              THEN Append(e1, TooManyError(item, group))
              ELSE e1
    IN ValidateGroups(item, Tail(groups),
         ValidateOptions(item, group, ids, [acc EXCEPT !.errors = e2]))

\* a pricer that starts from the unit price the client declared
InitialUnitPriceFromClient(item, menuDef) == item.unitPrice

\* a pricer that keeps a price the line already carries
InitialUnitPriceKeepsLine(item, menuDef) ==
  IF item.unitPrice > 0 THEN item.unitPrice ELSE menuDef.basePrice

\* let currentUnitPrice = menuDef.basePrice
InitialUnitPrice(item, menuDef) == menuDef.basePrice

\* the loop over the order's lines; acc = [errors, items, subtotal]
RECURSIVE ValidateItems(_, _, _)
ValidateItems(items, menu, acc) ==
  IF items = <<>> THEN acc
  ELSE
    LET item == Head(items)
        k == FindFirst(menu, LAMBDA m : m.id = item.menuItemId)
    IN IF k = 0
       THEN ValidateItems(Tail(items), menu,
              [acc EXCEPT !.errors = Append(@, ItemNotFoundError(item))])
       ELSE
         LET menuDef == menu[k]
             e0 == IF menuDef.isAvailable THEN acc.errors
                   ELSE Append(acc.errors, ItemUnavailableError(item, menuDef))
             g == ValidateGroups(item, menuDef.modifierGroups,
                    [errors |-> e0,
                     unitPrice |-> InitialUnitPrice(item, menuDef),
                     mods |-> <<>>])
             validatedItem == [item EXCEPT !.name = menuDef.name,
                                           !.unitPrice = g.unitPrice,
                                           !.selectedModifiers = g.mods]
         IN ValidateItems(Tail(items), menu,
              [errors |-> g.errors,
               items |-> Append(acc.items, validatedItem),
               subtotal |-> acc.subtotal
                            + validatedItem.unitPrice * validatedItem.quantity])

ValidateOrder(order, menu) ==
  LET r == ValidateItems(order.items, menu,
                         [errors |-> <<>>, items |-> <<>>, subtotal |-> 0])
      calculatedSubtotal == r.subtotal
  IN [isValid |-> r.errors = <<>>,
      errors |-> r.errors,
      validatedOrder |->
        [order EXCEPT
           !.items = r.items,
           !.subtotal = calculatedSubtotal,
           !.tax = ToFixed2(calculatedSubtotal * TaxRatePercent, 100, TRUE),
           !.total = ToFixed2(calculatedSubtotal * (100 + TaxRatePercent),
                              100, TRUE)]]

\* a validator that reprices the order it was given in place
OrderAfterValidateRepriced(order, menu) ==
  ValidateOrder(order, menu).validatedOrder

\* the order the caller passed, as validateOrder leaves it: the function
\* assigns to locals and to the objects it creates only ({...item},
\* {...order}, the errors and the rebuilt modifier lists)
OrderAfterValidate(order, menu) == order

\* the menu the caller passed, as validateOrder leaves it: it is only read
\* (find on the items, loops over groups and options)
MenuAfterValidate(order, menu) == menu

\* ------------------------------------------------------------ the texts
\* what the user says in a turn
TextHello        == <<"h","e","l","l","o">>
TextTwoBurgers   == <<"2"," ","b","u","r","g","e","r">>
TextConfirm      == <<"P","l","e","a","s","e"," ","c","o","n","f","i","r","m">>
TextConfirmFries == <<"c","o","n","f","i","r","m"," ","f","r","i","e","s">>
TextPlaceOrder   == <<"P","L","A","C","E"," ","O","R","D","E","R">>
UserTexts == {TextHello, TextTwoBurgers, TextConfirm, TextConfirmFries,
              TextPlaceOrder}

MenuNames == {BurgerName, FriesName}

\* The matcher's verdicts, the quantities and the finalize intent of the
\* texts above, computed once by the operators that model the code
MatchesTable ==
  [t \in UserTexts |->
     [n \in MenuNames |-> MatchesMenuItem(ToLowerCase(t), n)]]
QuantityTable ==
  [t \in UserTexts |->
     [n \in MenuNames |-> ExtractQuantity(ToLowerCase(t), n)]]
FinalizeTable == [t \in UserTexts |-> FinalizeIntent(t)]

MatchesMenuItemIn(userText, itemName) ==
  IF userText \in UserTexts /\ itemName \in MenuNames
  THEN MatchesTable[userText][itemName]
  ELSE MatchesMenuItem(ToLowerCase(userText), itemName)

ExtractQuantityIn(userText, itemName) ==
  IF userText \in UserTexts /\ itemName \in MenuNames
  THEN QuantityTable[userText][itemName]
  ELSE ExtractQuantity(ToLowerCase(userText), itemName)

FinalizeIntentIn(userText) ==
  IF userText \in UserTexts THEN FinalizeTable[userText]
  ELSE FinalizeIntent(userText)

\* ---------------------------------------------------------- order mutator
LineSubtotal(items) ==
  SumSeq([i \in 1..Len(items) |-> items[i].unitPrice * items[i].quantity])

\* a tax computed at the validator's rate, whatever the order carried
MutatorTaxAtFixedRate(order, subtotal, up) ==
  ToFixed2(subtotal * TaxRatePercent, 100, up)

\* taxRate = order.subtotal > 0 ? order.tax / order.subtotal : 0 and
\* tax = Number((subtotal * taxRate).toFixed(2))
MutatorTax(order, subtotal, up) ==
  IF order.subtotal > 0
  THEN ToFixed2(subtotal * order.tax, order.subtotal, up)
  ELSE 0

\* the second half of addItemFromText: the line of the matched item is
\* merged or appended and the totals are recomputed
AddQuantity(matchedMenuItem, quantity, order, now, up) ==
       LET e == FindFirst(order.items,
                  LAMBDA item : /\ item.menuItemId = matchedMenuItem.id
                                /\ Len(item.selectedModifiers) = 0)
           newItem == [id |-> <<"line_", now>>,
                       menuItemId |-> matchedMenuItem.id,
                       name |-> matchedMenuItem.name,
                       quantity |-> quantity,
                       unitPrice |-> matchedMenuItem.basePrice,
                       selectedModifiers |-> <<>>]
           updatedItems ==
             IF e # 0
             THEN [i \in 1..Len(order.items) |->
                     IF order.items[i].id = order.items[e].id
                     THEN [order.items[i] EXCEPT !.quantity = @ + quantity]
                     ELSE order.items[i]]
             ELSE Append(order.items, newItem)
           subtotal == LineSubtotal(updatedItems)
           tax == MutatorTax(order, subtotal, up)
           total == ToFixed2(subtotal + tax, 1, up)
       IN [order |-> [order EXCEPT !.items = updatedItems,
                                   !.subtotal = subtotal,
                                   !.tax = tax,
                                   !.total = total],
           addedItem |-> IF e # 0 THEN order.items[e] ELSE newItem]

\* a mutator that, when nothing matches, returns the order with its totals
\* recomputed from its lines
AddItemFromTextRetotals(userText, menu, order, now, up) ==
  LET m == FindFirst(menu, LAMBDA item : MatchesMenuItemIn(userText, item.name))
  IN IF Len(menu) = 0 \/ m = 0
     THEN [order |-> [order EXCEPT
                        !.subtotal = LineSubtotal(order.items),
                        !.total = LineSubtotal(order.items) + order.tax],
           addedItem |-> NoItem]
     ELSE AddQuantity(menu[m], ExtractQuantityIn(userText, menu[m].name),
                      order, now, up)

\* a mutator that leaves an order alone once it is no longer pending
AddItemFromTextPendingOnly(userText, menu, order, now, up) ==
  LET m == FindFirst(menu, LAMBDA item : MatchesMenuItemIn(userText, item.name))
  IN IF Len(menu) = 0 \/ m = 0 \/ order.status # "pending"
     THEN [order |-> order, addedItem |-> NoItem]
     ELSE AddQuantity(menu[m], ExtractQuantityIn(userText, menu[m].name),
                      order, now, up)

\* addItemFromText; now is Date.now() at the call, up the rounding of an
\* exact half cent of tax.  addedItem is NoItem when nothing was matched.
AddItemFromText(userText, menu, order, now, up) ==
  LET m == FindFirst(menu, LAMBDA item : MatchesMenuItemIn(userText, item.name))
  IN IF Len(menu) = 0 \/ m = 0
     THEN [order |-> order, addedItem |-> NoItem]
     ELSE AddQuantity(menu[m], ExtractQuantityIn(userText, menu[m].name),
                      order, now, up)

\* ---------------------------------------------------- conversation engine
OverridePrefix == <<"I can't place the order yet. ">>

NoMetadata == [k \in {} |-> ""]

\* a failed fetch answered with a menu the engine makes up
FetchedMenuMadeUp(fetch) == IF fetch.ok THEN fetch.menu ELSE MenuAll

\* the menu of the turn: fetchMenu's snapshot, or [] when it threw (the
\* catch logs and carries on)
FetchedMenu(fetch) == IF fetch.ok THEN fetch.menu ELSE <<>>

\* a guardrail that does not look at the status
FinalizeGuardAnyStatus(state, userText) == FinalizeIntentIn(userText)

\* a guardrail that refuses to finalize an order without lines
FinalizeGuardNeedsLines(state, userText) ==
  /\ state.currentOrder.status = "pending"
  /\ FinalizeIntentIn(userText)
  /\ Len(state.currentOrder.items) > 0

\* the condition of the guardrail
FinalizeGuard(state, userText) ==
  state.currentOrder.status = "pending" /\ FinalizeIntentIn(userText)

\* the validation of the guardrail: of the order of the incoming state
GuardrailValidation(state, menu) ==
  ValidateOrder(state.currentOrder, menu)

\* an override that reports the first defect only
OverrideContentFirstOnly(validation) ==
  OverridePrefix \o validation.errors[1].message

\* the reply that replaces the generator's when the guardrail finds defects
OverrideContent(validation) ==
  OverridePrefix
  \o JoinMessages([i \in 1..Len(validation.errors) |->
                     validation.errors[i].message])

\* a history rebuilt from the turns of this call only
NewHistoryForgets(history, userTurn, assistantTurn) ==
  <<userTurn, assistantTurn>>

\* [...state.history, userTurn] and then [...updatedHistory, assistantTurn]
NewHistory(history, userTurn, assistantTurn) ==
  Append(Append(history, userTurn), assistantTurn)

\* a catch that lets the generator's own error through
TurnOutcomeRethrows(ai, newState) ==
  IF ~ai.ok
  THEN [kind |-> "error", name |-> "Error", code |-> "UPSTREAM_ERROR"]
  ELSE [kind |-> "state", state |-> newState]

\* the end of the call: the catch around the mutation, the generator and
\* the guardrail throws ConversationError, otherwise the new state returns
TurnOutcome(ai, newState) ==
  IF ~ai.ok
  THEN [kind |-> "error", name |-> "ConversationError",
        code |-> "AI_SERVICE_ERROR"]
  ELSE [kind |-> "state", state |-> newState]

\* The objects of a call: "input" is state.currentOrder, "copy" the object
\* of let nextOrderState = { ...state.currentOrder }, "update" the order
\* object that addItemFromText builds when it has matched an item.
\* an assignment without the spread: nextOrderState is the input object
SpreadCopyAliases(object) == object

\* { ...object }: a new object
SpreadCopy(object) == "copy"

\* the object addItemFromText returns as order: its argument when nothing
\* matched (return { order }), a new object otherwise
ReturnedOrderObject(order, orderUpdate) ==
  IF orderUpdate.addedItem = NoItem THEN order ELSE "update"

\* the input state after the call.  The call's only write to an object it
\* did not just build is nextOrderState.status = 'confirmed', made after the
\* generator has replied; every other change builds a new array or object
\* ([...state.history, userTurn], order.items.map, { ...item, quantity })
InputAfter(state, ai, orderUpdate, confirmed) ==
  IF /\ ai.ok /\ confirmed
     /\ ReturnedOrderObject(SpreadCopy("input"), orderUpdate) = "input"
  THEN [state EXCEPT !.currentOrder.status = "confirmed"]
  ELSE state

\* advanceConversation from its step 4 on, given the outcome of the mutation
\* (orderUpdate) and what validateOrder says of the incoming order
AdvanceWith(state, userText, ai, orderUpdate, validation) ==
  LET userTurn == [role |-> "user", content |-> userText,
                   metadata |-> NoMetadata]
      meta1 == IF orderUpdate.addedItem # NoItem
               THEN ("itemAdded" :> orderUpdate.addedItem.name)
               ELSE NoMetadata
      guard == FinalizeGuard(state, userText)
      confirmed == guard /\ validation.isValid
      nextOrderState == IF confirmed
                        THEN [orderUpdate.order EXCEPT !.status = "confirmed"]
                        ELSE orderUpdate.order
      metadata == IF confirmed
                  THEN meta1 @@ ("orderStatusChanged" :> "confirmed")
                  ELSE meta1
      aiResponseContent ==
        IF guard /\ ~validation.isValid
        THEN OverrideContent(validation)
        ELSE ai.content
      assistantTurn == [role |-> "assistant", content |-> aiResponseContent,
                        metadata |-> metadata]
  IN TurnOutcome(ai,
       [conversationId |-> state.conversationId,
        history |-> NewHistory(state.history, userTurn, assistantTurn),
        currentOrder |-> nextOrderState])
     @@ [input |-> InputAfter(state, ai, orderUpdate, confirmed)]

\* advanceConversation(state, userText).  fetch is what fetchMenu does in
\* this call, ai what generateAssistantReply does.  The outcome is either
\* a returned ConversationState or a thrown ConversationError.
AdvanceConversation(state, userText, fetch, ai, now, up) ==
  AdvanceWith(state, userText, ai,
              AddItemFromText(userText, FetchedMenu(fetch),
                              state.currentOrder, now, up),
              GuardrailValidation(state, FetchedMenu(fetch)))

\* the ways the tax of this call's mutation can round: both on an exact
\* half cent, one otherwise
RoundingChoices(state, userText, fetch, now) ==
  LET menu == FetchedMenu(fetch)
      order == state.currentOrder
      sub == AddItemFromText(userText, menu, order, now, TRUE).order.subtotal
  IN IF order.subtotal > 0 /\ IsTie(sub * order.tax, order.subtotal)
     THEN BOOLEAN ELSE {TRUE}

\* createInitialState
CreateInitialState(conversationId, now) ==
  [conversationId |-> conversationId,
   history |-> <<>>,
   currentOrder |-> [id |-> <<"ord_", now>>, items |-> <<>>,
                     subtotal |-> 0, tax |-> 0, total |-> 0,
                     status |-> "pending"]]

\* ------------------------------------------------------------ the inputs
\* what fetchMenu does in a call: it throws, or returns a snapshot
FetchOutcomes == {[ok |-> FALSE]} \cup {[ok |-> TRUE, menu |-> m] : m \in Menus}

\* what generateAssistantReply does in a call: it throws, or returns a turn
AiReply == <<"Sure, anything else?">>
AiOutcomes == {[ok |-> FALSE], [ok |-> TRUE, content |-> AiReply]}

Statuses == {"pending", "confirmed", "preparing", "ready", "completed",
             "cancelled"}

\* order lines a client can send in the state of POST /api/conversation
ClientLine(k, menuItemId, name, quantity, unitPrice, mods) ==
  [id |-> <<"item_", k>>, menuItemId |-> menuItemId, name |-> name,
   quantity |-> quantity, unitPrice |-> unitPrice, selectedModifiers |-> mods]

ClientCheddar == [groupId |-> "cheese_group", optionId |-> "cheddar",
                  name |-> "Free cheese", priceAdjustment |-> 0]
ClientSwiss == [groupId |-> "cheese_group", optionId |-> "swiss",
                name |-> "Swiss", priceAdjustment |-> 150]

ClientItemLists ==
  { <<>>,
    << ClientLine(1, "burger_classic", BurgerName, 1, 1000, <<>>) >>,
    << ClientLine(1, "burger_classic", BurgerName, 1, 1, <<ClientCheddar>>),
       ClientLine(2, "fries_side", FriesName, 2, 399, <<>>) >>,
    << ClientLine(1, "fries_side", FriesName, 1, 399, <<>>) >>,
    << ClientLine(1, "burger_classic", BurgerName, 1, 1250,
                  <<ClientCheddar, ClientSwiss>>),
       ClientLine(2, "fries_side", FriesName, 1, 399, <<>>) >>,
    << ClientLine(1, "ghost_item", <<"G","h","o","s","t">>, 1, 500, <<>>) >> }

\* the totals a client can declare for its lines: the ones the lines and
\* the tax rate give, none, or made-up ones
ClientTotals(items) ==
  LET sub == LineSubtotal(items)
      tax == ToFixed2(sub * TaxRatePercent, 100, TRUE)
  IN { [subtotal |-> sub, tax |-> tax, total |-> sub + tax],
       [subtotal |-> 0, tax |-> 0, total |-> 0],
       [subtotal |-> 2, tax |-> 1, total |-> 9999] }

ClientOrder(items, totals, status) ==
  [id |-> <<"ord_", 0>>, items |-> items, subtotal |-> totals.subtotal,
   tax |-> totals.tax, total |-> totals.total, status |-> status]

\* the lines two turns answered within one millisecond leave behind: each
\* turn appended a line with the id line_<Date.now()>
RepeatedIdLines ==
  << [id |-> <<"line_", 1>>, menuItemId |-> "burger_classic",
      name |-> BurgerName, quantity |-> 1, unitPrice |-> 1000,
      selectedModifiers |-> <<>>],
     [id |-> <<"line_", 1>>, menuItemId |-> "fries_side",
      name |-> FriesName, quantity |-> 1, unitPrice |-> 400,
      selectedModifiers |-> <<>>] >>

ClientOrders ==
  UNION {{ClientOrder(items, totals, "pending") :
            totals \in ClientTotals(items)} : items \in ClientItemLists}
  \cup
  {ClientOrder(RepeatedIdLines,
               [subtotal |-> 1400, tax |-> 0, total |-> 1400], "pending")}
  \cup
  {ClientOrder(<< ClientLine(1, "fries_side", FriesName, 1, 399, <<>>) >>,
               [subtotal |-> 399, tax |-> 32, total |-> 431], status) :
     status \in Statuses}

InitialStates ==
  {CreateInitialState("conv_1", 0)}
  \cup {[conversationId |-> "conv_1", history |-> <<>>, currentOrder |-> o] :
          o \in ClientOrders}

\* ------------------------------------------------ order submission client
\* RETRY_CONFIG
maxRetries == 3
initialDelayMs == 1000
backoffFactor == 2

\* what the endpoint can send as the body of a response: text that is not
\* JSON, the JSON value null, or a JSON object; an object's absent field is
\* "" / <<>> / 0, which the code's tests (!x, x || y) treat as they treat
\* undefined
BodyNotJson == [kind |-> "notjson"]
BodyNull == [kind |-> "null"]
BodyObject(confirmationId, estimatedWaitTimeMinutes, message) ==
  [kind |-> "object", confirmationId |-> confirmationId,
   estimatedWaitTimeMinutes |-> estimatedWaitTimeMinutes,
   message |-> message]

\* response.statusText
StatusText(status) ==
  CASE status = 200 -> <<"OK">>
    [] status = 400 -> <<"Bad Request">>
    [] status = 429 -> <<"Too Many Requests">>
    [] status = 503 -> <<"Service Unavailable">>
    [] OTHER -> <<>>

\* what one fetch of the endpoint can do: reject (the endpoint cannot be
\* reached: TypeError; the request was aborted: AbortError) or resolve with
\* a response
FetchFailed == [name |-> "TypeError", message |-> <<"fetch failed">>]
FetchAborted == [name |-> "AbortError", message |-> <<"The operation was aborted.">>]
EndpointStatuses == {200, 400, 429, 503}
EndpointBodies ==
  {BodyNotJson, BodyNull,
   BodyObject("", 0, <<"Card declined">>),
   BodyObject("conf_1", 0, <<>>)}
EndpointOutcomes ==
  {[kind |-> "throw", error |-> e] : e \in {FetchFailed, FetchAborted}}
  \cup {[kind |-> "http", status |-> st, body |-> b] :
          st \in EndpointStatuses, b \in EndpointBodies}

\* the errors the code raises on itself while it reads a body:
\* response.json() on text that is not JSON, and a property read on null
JsonSyntaxError ==
  [name |-> "SyntaxError", message |-> <<"Unexpected token in JSON">>]
NullDereference ==
  [name |-> "TypeError", message |-> <<"Cannot read properties of null">>]

Failure(code, message) ==
  [success |-> FALSE, error |-> [code |-> code, message |-> message]]

HttpFailure(status, errorBody) ==
  [success |-> FALSE,
   error |-> [code |-> <<"HTTP_", ToString(status)>>,
              message |-> IF errorBody.message # <<>> THEN errorBody.message
                          ELSE <<"External API returned status ",
                                 ToString(status)>>,
              details |-> errorBody]]

Success(data) ==
  [success |-> TRUE,
   data |-> [confirmationId |-> data.confirmationId,
             estimatedWaitTimeMinutes |->
               IF data.estimatedWaitTimeMinutes # 0
               THEN data.estimatedWaitTimeMinutes ELSE 15,
             status |-> "received"]]

NoResult == [success |-> FALSE, error |-> [code |-> <<>>, message |-> <<>>]]

\* the state of a submitOrder call: where it is, its locals, the outcomes
\* of the requests it has made, the sleeps it has taken and its result
SubIdle == [pc |-> "idle"]
SubLoop(order) ==
  [pc |-> "loop", order |-> order, attempt |-> 0,
   currentDelay |-> initialDelayMs, history |-> <<>>, slept |-> <<>>,
   result |-> NoResult]
SubDone(order, result) ==
  [pc |-> "done", order |-> order, attempt |-> 0,
   currentDelay |-> initialDelayMs, history |-> <<>>, slept |-> <<>>,
   result |-> result]

\* submitOrder up to its loop: without a configured URL it returns at once
SubmitOrderStart(order, url) ==
  IF url = ""
  THEN SubDone(order, Failure(<<"CONFIG_ERROR">>,
                              <<"Order submission URL is not configured.">>))
  ELSE SubLoop(order)

\* status >= 500 || status === 429
IsTransient(status) == status >= 500 \/ status = 429

\* a classifier that takes no thrown error for a network error
IsNetworkErrorNever(name) == FALSE

\* error.name === 'TypeError' || error.name === 'FetchError'
IsNetworkError(name) == name \in {"TypeError", "FetchError"}

\* a budget test that lets the last attempt retry as well
BudgetRemainsAlways(attempt) == attempt <= maxRetries

\* attempt < RETRY_CONFIG.maxRetries
BudgetRemains(attempt) == attempt < maxRetries

\* a retry that sleeps and counts but leaves the delay as it was
RetryFixedDelay(s) ==
  [s EXCEPT !.slept = Append(@, s.currentDelay),
            !.attempt = @ + 1]

\* await sleep(currentDelay); attempt++; currentDelay *= backoffFactor;
\* continue
Retry(s) ==
  [s EXCEPT !.slept = Append(@, s.currentDelay),
            !.attempt = @ + 1,
            !.currentDelay = @ * backoffFactor]

Return(s, result) == [s EXCEPT !.pc = "done", !.result = result]

\* the catch block of the loop
CatchError(s, error) ==
  IF IsNetworkError(error.name) /\ BudgetRemains(s.attempt)
  THEN Retry(s)
  ELSE Return(s, Failure(<<"NETWORK_ERROR">>, error.message))

\* response.json().catch(() => ({ message: response.statusText }))
ErrorBody(response) ==
  IF response.body.kind = "notjson"
  THEN BodyObject("", 0, StatusText(response.status))
  ELSE response.body

\* the branch for !response.ok
HandleNotOk(s, response) ==
  IF IsTransient(response.status) /\ BudgetRemains(s.attempt)
  THEN Retry(s)
  ELSE IF ErrorBody(response).kind = "null"
  THEN CatchError(s, NullDereference)
  ELSE Return(s, HttpFailure(response.status, ErrorBody(response)))

\* the success path
HandleOk(s, response) ==
  IF response.body.kind = "notjson" THEN CatchError(s, JsonSyntaxError)
  ELSE IF response.body.kind = "null" THEN CatchError(s, NullDereference)
  ELSE IF response.body.confirmationId = ""
  THEN Return(s, Failure(<<"INVALID_RESPONSE">>,
                         <<"External API did not return a confirmation ID.">>))
  ELSE Return(s, Success(response.body))

\* what the iteration does with the outcome of its fetch
HandleOutcome(s, outcome) ==
  IF outcome.kind = "throw" THEN CatchError(s, outcome.error)
  ELSE IF outcome.status \in 200..299 THEN HandleOk(s, outcome)
  ELSE HandleNotOk(s, outcome)

\* one pass of while (attempt <= maxRetries): the request is made, its
\* outcome is handled; after the loop the fallback result is returned
SubmitOrderStep(s, outcome) ==
  IF s.attempt <= maxRetries
  THEN HandleOutcome([s EXCEPT !.history = Append(@, outcome)], outcome)
  ELSE Return(s, Failure(<<"TIMEOUT">>,
                         <<"Max retries exceeded while submitting order.">>))

\* ------------------------------------------------------------ menu client
\* const CACHE_TTL_MS = 5 * 60 * 1000
CACHE_TTL_MS == 300000

\* let menuCache: CacheEntry<MenuItem[]> | null = null
NoCache == [present |-> FALSE]
CacheEntry(data, timestamp) ==
  [present |-> TRUE, data |-> data, timestamp |-> timestamp]

\* fetchMenu() at time clock, when the menu API would answer with source (a
\* snapshot, or a failure): the snapshot of a cache entry that has not
\* expired is returned without a request; otherwise the API is asked and
\* its snapshot is cached, or its failure thrown.  The result and the
\* cache after the call.
FetchMenu(cache, clock, source) ==
  IF cache.present /\ ~((clock - cache.timestamp) > CACHE_TTL_MS)
  THEN [result |-> [ok |-> TRUE, menu |-> cache.data], cache |-> cache]
  ELSE IF source.ok
  THEN [result |-> source, cache |-> CacheEntry(source.menu, clock)]
  ELSE [result |-> [ok |-> FALSE], cache |-> cache]

NoSolo == [c \in {} |-> NoCache]

\* the UI state of OrderKioskPage after mount (null is ""), with no
\* transcript handled and no request in flight
PageAtMount ==
  [isProcessing |-> FALSE, isSubmittingOrder |-> FALSE,
   assistantResponse |-> "", error |-> "", transcripts |-> 0, requests |-> {}]

\* INITIAL_STATE with the session id the page generates on mount
PageInitialState(session) ==
  [conversationId |-> session,
   history |-> <<>>,
   currentOrder |-> [id |-> <<>>, items |-> <<>>,
                     subtotal |-> 0, tax |-> 0, total |-> 0,
                     status |-> "pending"]]

\* no fetchMenu call made, none waiting, clearMenuCache not called
NoMenuCalls == [made |-> 0, waiting |-> {}, cleared |-> FALSE]

\* ------------------------------------------------------ the state machine
VARIABLES
  conv,   \* the ConversationState the caller holds
  now,    \* the calls of advanceConversation made so far
  last,   \* the last call: its arguments and its outcome
  sub,    \* the submitOrder call in progress
  menuCache,  \* the cache of menu_client, one per process
  solo,   \* per conversation, the run in which its turns run alone
  menuCalls, \* the fetchMenu calls that wait for the menu API's answer
  page    \* the kiosk page: its UI state and its requests in flight

vars == <<conv, now, last, sub, menuCache, solo, menuCalls, page>>

Init ==
  /\ conv \in InitialStates
  /\ now = 0
  /\ last = [op |-> "none"]
  /\ sub = SubIdle
  /\ menuCache = NoCache
  /\ solo = NoSolo
  /\ menuCalls = NoMenuCalls
  /\ page = PageAtMount

\* one turn: the caller (simulateTurn) passes the state it holds and keeps
\* the returned state, or the one it passed, as the call left it, when the
\* call throws.  clock is what
\* Date.now() returns in the call: milliseconds, which need not have
\* advanced since the previous call read it
Advance ==
  /\ now < MaxCalls
  /\ \E userText \in UserTexts, fetch \in FetchOutcomes, ai \in AiOutcomes :
     \E clock \in {now, now + 1} :
     \E up \in RoundingChoices(conv, userText, fetch, clock) :
     \E out \in {AdvanceConversation(conv, userText, fetch, ai, clock, up)} :
       /\ last' = [op |-> "advance", state |-> conv, userText |-> userText,
                   fetch |-> fetch, ai |-> ai, clock |-> clock, out |-> out]
       /\ conv' = IF out.kind = "state" THEN out.state ELSE out.input
  /\ now' = now + 1
  /\ UNCHANGED <<sub, menuCache, solo, menuCalls, page>>

\* a standalone validateOrder call on the current order (POST /api/order)
Validate ==
  /\ last' = [op |-> "validate", order |-> conv.currentOrder,
              menu |-> CURRENT_MENU,
              result |-> ValidateOrder(conv.currentOrder, CURRENT_MENU)]
  /\ UNCHANGED <<conv, now, sub, menuCache, solo, menuCalls, page>>

Next == Advance \/ Validate

Spec == Init /\ [][Next]_vars

\* ----------------------------------------- the validator on its own inputs
\* a menu item with a required single choice and a price reduction
ComboName == <<"C","o","m","b","o">>
SizeName  == <<"S","i","z","e">>

Combo ==
  [id |-> "combo_meal", name |-> ComboName, basePrice |-> 1250,
   isAvailable |-> TRUE,
   modifierGroups |->
     << [id |-> "size_group", name |-> SizeName,
         minSelection |-> 1, maxSelection |-> 1,
         options |-> << [id |-> "small", name |-> "Small",
                         priceAdjustment |-> -50, isAvailable |-> TRUE],
                        [id |-> "large", name |-> "Large",
                         priceAdjustment |-> 200, isAvailable |-> TRUE] >>] >>]

MenuCombo == << Combo, Burger(FALSE, TRUE), Fries(TRUE, 399) >>
ValidatorMenus == {MenuAll, MenuFriesOut, MenuCombo, <<>>}

ClientSize(optionId) == [groupId |-> "size_group", optionId |-> optionId,
                         name |-> "Size", priceAdjustment |-> 0]

ValidatorItemLists ==
  ClientItemLists \cup
  { << ClientLine(1, "combo_meal", ComboName, 3, 1250, <<>>) >>,
    << ClientLine(1, "combo_meal", ComboName, 2, 1200, <<ClientSize("small")>>),
       ClientLine(2, "fries_side", FriesName, 3, 399, <<>>) >>,
    << ClientLine(1, "combo_meal", ComboName, 1, 1400,
                  <<ClientSize("small"), ClientSize("large")>>) >>,
    << ClientLine(1, "combo_meal", ComboName, 1, 1250, <<ClientCheddar>>) >>,
    << ClientLine(1, "fries_side", FriesName, 2, 400, <<ClientCheddar>>) >>,
    << ClientLine(1, "burger_classic", BurgerName, 2, 1000,
                  <<ClientSwiss, ClientSize("small")>>),
       ClientLine(2, "ghost_item", <<"G","h","o","s","t">>, 1, 500, <<>>),
       ClientLine(3, "burger_classic", BurgerName, 1, 1000,
                  << [groupId |-> "cheese_group", optionId |-> "brie",
                      name |-> "Brie", priceAdjustment |-> 175] >>) >> }

ValidatorOrders ==
  UNION {{ClientOrder(items, totals, status) :
            totals \in ClientTotals(items), status \in {"pending", "ready"}} :
         items \in ValidatorItemLists}

\* what a client can change in an order without changing what it orders:
\* the declared unit prices, the modifier names and price adjustments, and
\* the totals
TamperValues ==
  {[unitPrice |-> 0, modName |-> "Free", priceAdjustment |-> 0,
    subtotal |-> 0, tax |-> 0, total |-> 0],
   [unitPrice |-> 1, modName |-> "Cheddar", priceAdjustment |-> -1000,
    subtotal |-> 1, tax |-> 0, total |-> 1],
   [unitPrice |-> 99999, modName |-> "Gold", priceAdjustment |-> 5,
    subtotal |-> 5, tax |-> 7, total |-> 3]}

Tamper(order, t) ==
  [order EXCEPT
     !.items = [i \in 1..Len(order.items) |->
                  [order.items[i] EXCEPT
                     !.unitPrice = t.unitPrice,
                     !.selectedModifiers =
                        [k \in 1..Len(order.items[i].selectedModifiers) |->
                           [order.items[i].selectedModifiers[k] EXCEPT
                              !.name = t.modName,
                              !.priceAdjustment = t.priceAdjustment]]]],
     !.subtotal = t.subtotal, !.tax = t.tax, !.total = t.total]

InitValidator ==
  /\ conv \in {[conversationId |-> "conv_1", history |-> <<>>,
                currentOrder |-> o] : o \in ValidatorOrders}
  /\ now = 0
  /\ last = [op |-> "none"]
  /\ sub = SubIdle
  /\ menuCache = NoCache
  /\ solo = NoSolo
  /\ menuCalls = NoMenuCalls
  /\ page = PageAtMount

\* validateOrder(order, menu) on the order at hand
ValidateWith ==
  /\ \E menu \in ValidatorMenus :
       last' = [op |-> "validate", order |-> conv.currentOrder, menu |-> menu,
                result |-> ValidateOrder(conv.currentOrder, menu)]
  /\ UNCHANGED <<conv, now, sub, menuCache, solo, menuCalls, page>>

\* validateOrder on the order at hand and on a tampered copy of it, against
\* the same menu
ValidateTampered ==
  /\ \E menu \in ValidatorMenus, t \in TamperValues :
       last' = [op |-> "validate2", order |-> conv.currentOrder, menu |-> menu,
                result |-> ValidateOrder(conv.currentOrder, menu),
                tampered |-> Tamper(conv.currentOrder, t),
                result2 |-> ValidateOrder(Tamper(conv.currentOrder, t), menu)]
  /\ UNCHANGED <<conv, now, sub, menuCache, solo, menuCalls, page>>

\* validateOrder on the validatedOrder of the validateOrder call before,
\* against the same menu
ValidateAgain ==
  /\ last.op = "validate"
  /\ last' = [op |-> "revalidate", order |-> last.result.validatedOrder,
              menu |-> last.menu, first |-> last.result,
              result |-> ValidateOrder(last.result.validatedOrder, last.menu)]
  /\ UNCHANGED <<conv, now, sub, menuCache, solo, menuCalls, page>>

\* validateOrder twice in a row on the same order and menu objects: the
\* second call sees them as the first call left them
ValidateRepeat ==
  /\ \E menu \in ValidatorMenus :
     \E after \in {[order |-> OrderAfterValidate(conv.currentOrder, menu),
                    menu |-> MenuAfterValidate(conv.currentOrder, menu)]} :
       /\ last' = [op |-> "repeat", order |-> conv.currentOrder, menu |-> menu,
                   result |-> ValidateOrder(conv.currentOrder, menu),
                   orderAfter |-> after.order, menuAfter |-> after.menu,
                   result2 |-> ValidateOrder(after.order, after.menu)]
       /\ conv' = [conv EXCEPT !.currentOrder = after.order]
  /\ UNCHANGED <<now, sub, menuCache, solo, menuCalls, page>>

NextValidator ==
  ValidateWith \/ ValidateTampered \/ ValidateAgain \/ ValidateRepeat

SpecValidator == InitValidator /\ [][NextValidator]_vars

\* ---------------------------------------------- the submission on its own
\* config.orderSubmissionUrl: set, or empty
SubmissionUrls == {"", "https://pos.example/orders"}

SubmitOrders ==
  {ClientOrder(<< ClientLine(1, "fries_side", FriesName, 1, 400, <<>>) >>,
               [subtotal |-> 400, tax |-> 32, total |-> 432], "confirmed"),
   ClientOrder(<< ClientLine(1, "burger_classic", BurgerName, 2, 1100,
                             <<ClientCheddar>>) >>,
               [subtotal |-> 2200, tax |-> 176, total |-> 2376], "confirmed")}

InitSubmit ==
  /\ conv \in {[conversationId |-> "conv_1", history |-> <<>>,
                currentOrder |-> o] : o \in SubmitOrders}
  /\ now = 0
  /\ last = [op |-> "none"]
  /\ sub = SubIdle
  /\ menuCache = NoCache
  /\ solo = NoSolo
  /\ menuCalls = NoMenuCalls
  /\ page = PageAtMount

\* submitOrder(order) is called
SubmitCall ==
  /\ sub.pc = "idle"
  /\ \E url \in SubmissionUrls :
       sub' = SubmitOrderStart(conv.currentOrder, url)
  /\ UNCHANGED <<conv, now, last, menuCache, solo, menuCalls, page>>

\* one pass of the retry loop, with what the endpoint does this time
SubmitAttempt ==
  /\ sub.pc = "loop"
  /\ \E outcome \in EndpointOutcomes :
       sub' = SubmitOrderStep(sub, outcome)
  /\ UNCHANGED <<conv, now, last, menuCache, solo, menuCalls, page>>

NextSubmit == SubmitCall \/ SubmitAttempt

SpecSubmit == InitSubmit /\ [][NextSubmit]_vars

\* the submission when every request the call makes is answered or fails
\* in the end, and every sleep ends: a call in its loop goes on
SpecSubmitFair == SpecSubmit /\ WF_vars(SubmitAttempt)

\* ------------------------------------------------- the matcher on its own
\* addItemFromText applied to utterances and catalogs drawn from small sets
CheeseburgerName == <<"C","h","e","e","s","e","b","u","r","g","e","r">>
SodaName == <<"D","r"," ","P","e","p","p","e","r">>

Cheeseburger ==
  [id |-> "cheeseburger", name |-> CheeseburgerName, basePrice |-> 900,
   isAvailable |-> TRUE, modifierGroups |-> <<>>]
Soda ==
  [id |-> "soda_pepper", name |-> SodaName, basePrice |-> 250,
   isAvailable |-> TRUE, modifierGroups |-> <<>>]

TextTwoCheeseburgers == <<"t","w","o"," ","c","h","e","e","s","e","b","u","r","g","e","r","s">>
TextCheeseburger == <<"c","h","e","e","s","e","b","u","r","g","e","r">>
TextDigitCheeseburgers == <<"2"," ","c","h","e","e","s","e","b","u","r","g","e","r","s">>
TextDigitCheeseburger == <<"2"," ","c","h","e","e","s","e","b","u","r","g","e","r">>
TextDosCheeseburger == <<"d","o","s"," ","c","h","e","e","s","e","b","u","r","g","e","r">>
TextDosCheeseburgers == <<"d","o","s"," ","c","h","e","e","s","e","b","u","r","g","e","r","s">>
TextCheeseburgerTimes == <<"c","h","e","e","s","e","b","u","r","g","e","r"," ","x"," ","3">>
TextZeroCheeseburger == <<"0"," ","c","h","e","e","s","e","b","u","r","g","e","r">>
TextClassicFries == <<"C","l","a","s","s","i","c"," ","f","r","i","e","s">>
TextDrFries == <<"d","r"," ","f","r","i","e","s">>
TextABurger == <<"a"," ","b","u","r","g","e","r">>
TextFriesUpper == <<"F","R","E","N","C","H"," ","F","R","I","E","S"," ","1","2">>
MatcherTexts ==
  {TextTwoCheeseburgers,
   TextCheeseburger,
   TextDigitCheeseburgers,
   TextDigitCheeseburger,
   TextDosCheeseburger,
   TextDosCheeseburgers,
   TextCheeseburgerTimes,
   TextZeroCheeseburger,
   TextClassicFries,
   TextDrFries,
   TextABurger,
   TextFriesUpper}

MatcherCatalogs ==
  { <<>>,
    << Cheeseburger >>,
    MenuAll,
    << Fries(TRUE, 400), Burger(TRUE, TRUE) >>,
    << Cheeseburger, Burger(TRUE, TRUE), Fries(TRUE, 400) >>,
    << Burger(TRUE, TRUE), Cheeseburger >>,
    << Soda, Fries(TRUE, 400) >>,
    << Fries(TRUE, 400), Cheeseburger, Soda >>,
    << Burger(TRUE, TRUE), Cheeseburger, Fries(TRUE, 400), Soda >> }

\* the orders the utterance is applied to: an empty one, and one that has a
\* line of the cheeseburger without modifiers
MatcherOrders ==
  {CreateInitialState("conv_1", 0).currentOrder,
   ClientOrder(<< ClientLine(1, "cheeseburger", CheeseburgerName, 1, 900,
                             <<>>) >>,
               [subtotal |-> 900, tax |-> 72, total |-> 972], "pending")}

InitMatcher ==
  /\ conv \in {[conversationId |-> "conv_1", history |-> <<>>,
                currentOrder |-> o] : o \in MatcherOrders}
  /\ now = 0
  /\ last = [op |-> "none"]
  /\ sub = SubIdle
  /\ menuCache = NoCache
  /\ solo = NoSolo
  /\ menuCalls = NoMenuCalls
  /\ page = PageAtMount

\* addItemFromText(userText, menu, order): what menu.find returns (index,
\* 0 when undefined), what extractQuantity returns for the found item, and
\* the returned order and addedItem
MatchText ==
  /\ \E userText \in MatcherTexts, menu \in MatcherCatalogs :
     \E index \in {FindFirst(menu, LAMBDA item :
                                 MatchesMenuItemIn(userText, item.name))} :
     \E quantity \in {IF index = 0 THEN 0
                      ELSE ExtractQuantityIn(userText, menu[index].name)} :
       last' = [op |-> "match", userText |-> userText, menu |-> menu,
                order |-> conv.currentOrder,
                index |-> index, quantity |-> quantity,
                update |-> AddItemFromText(userText, menu, conv.currentOrder,
                                           now + 1, TRUE)]
  /\ UNCHANGED <<conv, now, sub, menuCache, solo, menuCalls, page>>

NextMatcher == MatchText

SpecMatcher == InitMatcher /\ [][NextMatcher]_vars

\* ------------------------------------------- two conversations, one process
\* Two callers advance their conversations in any order in one process, which
\* has one menu cache.  Next to it, each conversation is run alone: the same
\* calls at the same times against the same menu API and reply generator, in
\* a process of its own.
Conversations == {"conv_1", "conv_2"}

InterleavedTexts == {TextTwoBurgers, TextConfirmFries}

\* the time between two calls: within the cache's lifetime, or beyond it
Elapsed == {1, CACHE_TTL_MS + 1}

Clock == IF last.op = "none" THEN 0 ELSE last.clock

\* what the caller holds after the call: the returned state, or the old one
\* when the call threw
Kept(state, out) == IF out.kind = "state" THEN out.state ELSE state

\* one orchestrator state for every caller
ConvAfterShared(states, c, out) ==
  [d \in DOMAIN states |-> Kept(states[c], out)]

\* the callers' states after the call of conversation c
ConvAfter(states, c, out) ==
  [states EXCEPT ![c] = Kept(states[c], out)]

InitInterleaved ==
  /\ conv = [c \in Conversations |-> CreateInitialState(c, 0)]
  /\ now = 0
  /\ last = [op |-> "none"]
  /\ sub = SubIdle
  /\ menuCache = NoCache
  /\ solo = [c \in Conversations |->
               [state |-> CreateInitialState(c, 0), menuCache |-> NoCache,
                sameMenus |-> TRUE]]
  /\ menuCalls = NoMenuCalls
  /\ page = PageAtMount

\* a turn of conversation c: advanceConversation(conv[c], userText), whose
\* fetchMenu goes through the process's cache; in the run of c alone the
\* same call goes through the cache that c's own calls have filled
Turn ==
  /\ now < MaxCalls
  /\ \E c \in Conversations, userText \in InterleavedTexts,
        source \in FetchOutcomes, ai \in AiOutcomes, elapsed \in Elapsed,
        up \in BOOLEAN :
     \E shared \in {FetchMenu(menuCache, Clock + elapsed, source)},
        alone \in {FetchMenu(solo[c].menuCache, Clock + elapsed, source)} :
     \E out \in {AdvanceConversation(conv[c], userText, shared.result, ai,
                                     Clock + elapsed, up)},
        outAlone \in {AdvanceConversation(solo[c].state, userText,
                                          alone.result, ai,
                                          Clock + elapsed, up)} :
       /\ conv' = ConvAfter(conv, c, out)
       /\ menuCache' = shared.cache
       /\ solo' = [solo EXCEPT ![c] =
                     [state |-> Kept(solo[c].state, outAlone),
                      menuCache |-> alone.cache,
                      sameMenus |-> /\ solo[c].sameMenus
                                    /\ alone.result = shared.result]]
       /\ last' = [op |-> "turn", conversation |-> c, clock |-> Clock + elapsed,
                   userText |-> userText, source |-> source, ai |-> ai,
                   fetch |-> shared.result, fetchAlone |-> alone.result,
                   state |-> conv[c], out |-> out, outAlone |-> outAlone]
  /\ now' = now + 1
  /\ UNCHANGED <<sub, menuCalls, page>>

NextInterleaved == Turn

SpecInterleaved == InitInterleaved /\ [][NextInterleaved]_vars

\* ------------------------------------------------------ POST /api/order
\* the orders a request can carry: no lines; a burger with cheddar whose
\* declared prices and totals are made up; lines of an unknown item and of
\* two cheeses; fries with quantity 0 and with quantity -2
RouteOrders ==
  {ClientOrder(<<>>, [subtotal |-> 0, tax |-> 0, total |-> 0], "pending"),
   ClientOrder(<< ClientLine(1, "burger_classic", BurgerName, 1, 1,
                             <<ClientCheddar>>) >>,
               [subtotal |-> 2, tax |-> 1, total |-> 9999], "pending"),
   ClientOrder(<< ClientLine(1, "ghost_item", <<"G","h","o","s","t">>, 1, 500,
                             <<>>) >>,
               [subtotal |-> 500, tax |-> 40, total |-> 540], "pending"),
   ClientOrder(<< ClientLine(1, "burger_classic", BurgerName, 1, 1250,
                             <<ClientCheddar, ClientSwiss>>),
                  ClientLine(2, "fries_side", FriesName, 1, 400, <<>>) >>,
               [subtotal |-> 1650, tax |-> 132, total |-> 1782], "pending"),
   ClientOrder(<< ClientLine(1, "fries_side", FriesName, 0, 400, <<>>) >>,
               [subtotal |-> 0, tax |-> 0, total |-> 0], "pending"),
   ClientOrder(<< ClientLine(1, "fries_side", FriesName, -2, 400, <<>>) >>,
               [subtotal |-> -800, tax |-> -64, total |-> -864], "pending")}

\* the body of a request: text that is not JSON, or an order
RouteBodies ==
  {[kind |-> "notjson"]} \cup {[kind |-> "json", order |-> o] : o \in RouteOrders}

NotValidated == [isValid |-> FALSE, errors |-> <<>>]

RouteResponse(status, body) == [status |-> status, body |-> body]
NoResponse == RouteResponse(0, [none |-> TRUE])

\* a route that forwards the body it received
OrderToSubmitFromBody(body, validationResult) == body

\* submitOrder(validationResult.validatedOrder)
OrderToSubmit(body, validationResult) == validationResult.validatedOrder

\* the request as the handler has it: where it is (done: it has responded),
\* the body, whether validateOrder was called and its result, the number of
\* submitOrder calls, and the response
RouteRequest(pc, body, validated, validation, calls, response) ==
  [op |-> "order", pc |-> pc, body |-> body, validated |-> validated,
   validation |-> validation, calls |-> calls, response |-> response]

\* POST up to its await of submitOrder, given what validateOrder says of the
\* parsed body: the request as it stands then
PostValidated(body, validationResult) ==
  IF ~validationResult.isValid
  THEN RouteRequest("done", body, TRUE, validationResult, 0,
         RouteResponse(400, [error |-> "Order validation failed",
                             details |-> validationResult.errors]))
  ELSE RouteRequest("submit", body, TRUE, validationResult, 1, NoResponse)

PostReceived(body) ==
  IF body.kind = "notjson"
  THEN RouteRequest("done", body, FALSE, NotValidated, 0,
         RouteResponse(400, [error |-> "Invalid JSON body"]))
  ELSE IF Len(body.order.items) = 0
  THEN RouteRequest("done", body, FALSE, NotValidated, 0,
         RouteResponse(400,
           [error |-> "Order must contain a non-empty 'items' array."]))
  ELSE PostValidated(body, ValidateOrder(body.order, CURRENT_MENU))

\* the response to the result of submitOrder
SubmissionResponse(submissionResult) ==
  IF submissionResult.success
  THEN RouteResponse(200, [message |-> "Order submitted successfully",
                           data |-> submissionResult.data])
  ELSE RouteResponse(IF submissionResult.error.code = <<"PAYMENT_DECLINED">>
                     THEN 402 ELSE 502,
                     [error |-> "Order submission failed",
                      code |-> submissionResult.error.code,
                      message |-> submissionResult.error.message])

InitRoute ==
  /\ conv = CreateInitialState("conv_1", 0)
  /\ now = 0
  /\ last = [op |-> "none"]
  /\ sub = SubIdle
  /\ menuCache = NoCache
  /\ solo = NoSolo
  /\ menuCalls = NoMenuCalls
  /\ page = PageAtMount

\* a request arrives and is handled up to its response, or up to the call
\* of submitOrder.  A body that is an order with lines is what the kiosk
\* page sends (handleConfirmOrder up to its await, which sends no empty
\* order); the other bodies come from other clients
RoutePost ==
  /\ last.op = "none"
  /\ \E body \in RouteBodies, url \in SubmissionUrls :
     \E request \in {PostReceived(body)} :
       /\ last' = request
       /\ sub' = IF request.pc = "submit"
                 THEN SubmitOrderStart(
                        OrderToSubmit(body.order, request.validation), url)
                 ELSE SubIdle
       /\ page' = IF body.kind = "json" /\ Len(body.order.items) > 0
                  THEN [page EXCEPT !.isSubmittingOrder = TRUE, !.error = ""]
                  ELSE page
  /\ UNCHANGED <<conv, now, menuCache, solo, menuCalls>>

\* submitOrder has returned: the handler responds
RouteRespond ==
  /\ last.op = "order" /\ last.pc = "submit"
  /\ sub.pc = "done"
  /\ last' = [last EXCEPT !.pc = "done",
                          !.response = SubmissionResponse(sub.result)]
  /\ UNCHANGED <<conv, now, sub, menuCache, solo, menuCalls, page>>

\* the test of handleConfirmOrder: response.ok && result.success, where
\* result is the JSON of the response and a field it lacks is undefined
OrderPlaced(response) ==
  /\ response.status \in 200..299
  /\ "success" \in DOMAIN response.body
  /\ response.body.success

\* the page after handleConfirmOrder has read the response: the success
\* flow, or the error flow and its finally
PageAfterOrder(p, response) ==
  IF OrderPlaced(response)
  THEN [p EXCEPT !.isSubmittingOrder = FALSE,
                 !.assistantResponse =
                    "Your order has been placed successfully!"]
  ELSE [p EXCEPT !.isSubmittingOrder = FALSE,
                 !.error = "Order submission failed",
                 !.assistantResponse = "I couldn't place the order."]

\* the response reaches the kiosk page: handleConfirmOrder runs from its
\* await to its end
HandleOrderResponse ==
  /\ last.op = "order" /\ last.pc = "done"
  /\ page.isSubmittingOrder
  /\ page' = PageAfterOrder(page, last.response)
  /\ conv' = IF OrderPlaced(last.response)
             THEN PageInitialState("session_2") ELSE conv
  /\ UNCHANGED <<now, last, sub, menuCache, solo, menuCalls>>

NextRoute ==
  RoutePost \/ SubmitAttempt \/ RouteRespond \/ HandleOrderResponse

SpecRoute == InitRoute /\ [][NextRoute]_vars

\* ------------------------------------------------ the menu client on its own
\* the time that passes before a step of the menu client: none, a
\* millisecond, just under the TTL, more than the TTL
MenuElapsed == {0, 1, CACHE_TTL_MS - 1, CACHE_TTL_MS + 1}

\* what the menu API does with a request: it answers with a snapshot, with
\* a status that is not ok, or the request fails
MenuApiOutcomes ==
  {[ok |-> TRUE, menu |-> m] : m \in Menus}
  \cup {[ok |-> FALSE, code |-> c] : c \in {"HTTP_ERROR", "NETWORK_ERROR"}}

\* const isExpired = (Date.now() - menuCache.timestamp) > CACHE_TTL_MS
IsExpired(cache, clock) == (clock - cache.timestamp) > CACHE_TTL_MS

\* step 1 of fetchMenu: is the call answered from the cache
ServedFromCache(cache, clock) == cache.present /\ ~IsExpired(cache, clock)

\* what a fetchMenu call that asked the API ends with: the items, or a
\* thrown MenuFetchError
MenuFetchResult(source) ==
  IF source.ok THEN [ok |-> TRUE, menu |-> source.menu]
  ELSE [ok |-> FALSE, name |-> "MenuFetchError", code |-> source.code]

\* step 4 of fetchMenu: the cache after the API's answer has been read
CacheAfterAnswer(cache, source, clock) ==
  IF source.ok THEN CacheEntry(source.menu, clock) ELSE cache

InitMenu ==
  /\ conv = CreateInitialState("conv_1", 0)
  /\ now = 0
  /\ last = [op |-> "none"]
  /\ sub = SubIdle
  /\ menuCache = NoCache
  /\ solo = NoSolo
  /\ menuCalls = NoMenuCalls
  /\ page = PageAtMount

\* fetchMenu() is called and runs up to its return from the cache or up to
\* its await of the request; now is the time in milliseconds
FetchMenuCall ==
  /\ menuCalls.made < MaxCalls
  /\ \E elapsed \in MenuElapsed :
       LET clock == now + elapsed
           call == menuCalls.made + 1
           cached == ServedFromCache(menuCache, clock)
       IN /\ now' = clock
          /\ last' = [op |-> "fetchMenu", call |-> call, clock |-> clock,
                      cache |-> menuCache, afterClear |-> menuCalls.cleared,
                      requested |-> ~cached,
                      returned |-> cached,
                      result |-> IF cached
                                 THEN [ok |-> TRUE, menu |-> menuCache.data]
                                 ELSE [ok |-> FALSE]]
          /\ menuCalls' = [made |-> call,
                           waiting |-> IF cached THEN menuCalls.waiting
                                       ELSE menuCalls.waiting \cup {call},
                           cleared |-> FALSE]
  /\ UNCHANGED <<conv, sub, menuCache, solo, page>>

\* the menu API's answer to a waiting call arrives and the call runs to its
\* end
FetchMenuAnswer ==
  /\ \E call \in menuCalls.waiting, source \in MenuApiOutcomes,
        elapsed \in MenuElapsed :
       LET clock == now + elapsed
       IN /\ now' = clock
          /\ menuCache' = CacheAfterAnswer(menuCache, source, clock)
          /\ last' = [op |-> "fetchMenuAnswer", call |-> call,
                      clock |-> clock, cache |-> menuCache,
                      source |-> source, returned |-> TRUE,
                      result |-> MenuFetchResult(source)]
          /\ menuCalls' = [menuCalls EXCEPT !.waiting = @ \ {call}]
  /\ UNCHANGED <<conv, sub, solo, page>>

\* clearMenuCache()
ClearMenuCache ==
  /\ menuCache' = NoCache
  /\ menuCalls' = [menuCalls EXCEPT !.cleared = TRUE]
  /\ last' = [op |-> "clearMenuCache", cache |-> menuCache,
              waiting |-> menuCalls.waiting]
  /\ UNCHANGED <<conv, now, sub, solo, page>>

NextMenu == FetchMenuCall \/ FetchMenuAnswer \/ ClearMenuCache

SpecMenu == InitMenu /\ [][NextMenu]_vars

\* ------------------------------------------------------------ the kiosk page
\* String.prototype.trim on the characters used here
RECURSIVE TrimStart(_)
TrimStart(s) ==
  IF s # <<>> /\ IsSpace(Head(s)) THEN TrimStart(Tail(s)) ELSE s

RECURSIVE TrimEnd(_)
TrimEnd(s) ==
  IF s # <<>> /\ IsSpace(s[Len(s)])
  THEN TrimEnd(SubSeq(s, 1, Len(s) - 1)) ELSE s

Trim(s) == TrimEnd(TrimStart(s))

\* the digits of a value of the number-word map (1..90)
NumberDigits(n) ==
  IF n < 10 THEN <<ToString(n)>> ELSE <<ToString(n \div 10), ToString(n % 10)>>

\* the index after the run of \w characters that starts at i
RECURSIVE WordRunEnd(_, _)
WordRunEnd(s, i) ==
  IF i <= Len(s) /\ IsWordChar(s[i]) THEN WordRunEnd(s, i + 1) ELSE i

\* normalizeNumberWords: every whole word that is, in any letter case, a
\* key of the number-word map is replaced by its digits
RECURSIVE NormalizeFrom(_, _)
NormalizeFrom(s, i) ==
  IF i > Len(s) THEN <<>>
  ELSE IF ~IsWordChar(s[i]) THEN <<s[i]>> \o NormalizeFrom(s, i + 1)
  ELSE LET e == WordRunEnd(s, i)
           word == SubSeq(s, i, e - 1)
           n == WordNumber(ToLowerCase(word))
       IN (IF n # 0 THEN NumberDigits(n) ELSE word) \o NormalizeFrom(s, e)

NormalizeNumberWords(input) == NormalizeFrom(input, 1)

\* what the customer can be heard to say
TextDosBurger == <<"D","o","s"," ","b","u","r","g","e","r">>
TextBlank == <<" ">>
PageTexts == {TextDosBurger, TextConfirmFries, TextHello, TextBlank}

\* POST /api/conversation for a body with a message and a state: the
\* status and the JSON it answers with
ConversationResponse(out) ==
  IF out.kind = "state"
  THEN [status |-> 200, state |-> out.state,
        reply |-> out.state.history[Len(out.state.history)].content]
  ELSE [status |-> 400, error |-> out.code]

\* a page that takes no transcript while a turn is being processed
MayHandleTranscriptWhenIdle(p) == ~p.isProcessing

\* handleUserTranscript has no test of isProcessing, and VoiceControls is
\* not told of it: a transcript is handled whenever it arrives
MayHandleTranscript(p) == TRUE

InitPage ==
  /\ conv = PageInitialState("session_1")
  /\ now = 0
  /\ last = [op |-> "none"]
  /\ sub = SubIdle
  /\ menuCache = NoCache
  /\ solo = NoSolo
  /\ menuCalls = NoMenuCalls
  /\ page = PageAtMount

\* handleUserTranscript(text) up to its await: the optimistic user turn is
\* added and the request is sent with the state the page holds
HandleUserTranscript ==
  /\ page.transcripts < MaxCalls
  /\ MayHandleTranscript(page)
  /\ \E text \in PageTexts :
       LET normalizedText == NormalizeNumberWords(text)
           request == [id |-> page.transcripts + 1,
                       message |-> normalizedText, state |-> conv]
       IN IF Trim(text) = <<>>
          THEN /\ page' = [page EXCEPT !.transcripts = @ + 1]
               /\ last' = [op |-> "transcript", text |-> text, sent |-> FALSE,
                           before |-> conv]
               /\ UNCHANGED conv
          ELSE /\ page' = [page EXCEPT !.transcripts = @ + 1,
                                       !.isProcessing = TRUE,
                                       !.error = "",
                                       !.requests = @ \cup {request}]
               /\ conv' = [conv EXCEPT !.history =
                             Append(@, [role |-> "user",
                                        content |-> normalizedText,
                                        id |-> <<"turn_user_", request.id>>])]
               /\ last' = [op |-> "transcript", text |-> text, sent |-> TRUE,
                           before |-> conv, request |-> request]
  /\ UNCHANGED <<now, sub, menuCache, solo, menuCalls>>

\* the server answers a request in flight (advanceConversation on the state
\* of the request) and handleUserTranscript runs from its await to its end
HandleConversationResponse ==
  /\ \E request \in page.requests, fetch \in FetchOutcomes, ai \in AiOutcomes :
     \E up \in RoundingChoices(request.state, Trim(request.message), fetch, now) :
     \E out \in {AdvanceConversation(request.state, Trim(request.message),
                                     fetch, ai, now, up)} :
       LET response == ConversationResponse(out)
       IN /\ last' = [op |-> "response", request |-> request,
                      before |-> conv, response |-> response]
          /\ conv' = IF response.status = 200 THEN response.state ELSE conv
          /\ page' = [page EXCEPT
                        !.requests = @ \ {request},
                        !.isProcessing = FALSE,
                        !.error = IF response.status = 200 THEN @
                                  ELSE "Sorry, I had trouble processing that.",
                        !.assistantResponse =
                           IF response.status = 200 THEN "reply"
                           ELSE "I'm sorry, I encountered an error."]
  /\ now' = now + 1
  /\ UNCHANGED <<sub, menuCache, solo, menuCalls>>

NextPage == HandleUserTranscript \/ HandleConversationResponse

SpecPage == InitPage /\ [][NextPage]_vars

\* ================================================================ claims
\* the last call was advanceConversation / it returned a state
IsAdvance == last.op = "advance"
Returned  == IsAdvance /\ last.out.kind = "state"
InState   == last.state
InOrder   == last.state.currentOrder
OutState  == last.out.state
OutOrder  == last.out.state.currentOrder
OutTurn   == last.out.state.history[Len(last.out.state.history)]
TurnMenu  == IF last.fetch.ok THEN last.fetch.menu ELSE <<>>

\* the texts of the model that contain "confirm" or "place order", in any
\* letter case
FinalizeTexts == {TextConfirm, TextConfirmFries, TextPlaceOrder}

\* C1: whenever advanceConversation returns a state whose order went from
\* pending to confirmed, the returned order, with the line the same turn
\* added or merged, passes validateOrder against the turn's menu without
\* errors.
C1_ConfirmedOrderPassesValidation ==
  (Returned /\ InOrder.status = "pending" /\ OutOrder.status = "confirmed")
    => ValidateOrder(OutOrder, TurnMenu).errors = <<>>

\* C2: the status becomes confirmed only if the incoming status is pending,
\* the text matches confirm | place order in any letter case, and
\* validateOrder (of the incoming order, against the turn's menu) reports no
\* errors; then the assistant turn's metadata records orderStatusChanged =
\* confirmed; in every other case the status is returned unchanged.
C2_ConfirmedOnlyThroughGuardrail ==
  Returned =>
    IF /\ InOrder.status = "pending"
       /\ last.userText \in FinalizeTexts
       /\ ValidateOrder(InOrder, TurnMenu).errors = <<>>
    THEN /\ OutOrder.status = "confirmed"
         /\ "orderStatusChanged" \in DOMAIN OutTurn.metadata
         /\ OutTurn.metadata["orderStatusChanged"] = "confirmed"
    ELSE OutOrder.status = InOrder.status

C2_Witness ==
  /\ Returned
  /\ InOrder.status = "pending" /\ InOrder.items # <<>>
  /\ last.userText = TextPlaceOrder
  /\ OutOrder.status = "confirmed"

HasUnavailableLine(order, menu) ==
  \E i \in 1..Len(order.items) : \E k \in 1..Len(menu) :
    menu[k].id = order.items[i].menuItemId /\ ~menu[k].isAvailable

\* C3: for a pending order with a line whose menu item is unavailable and a
\* text that matches the finalize pattern, the returned status is still
\* pending, the assistant turn's content is the override text listing every
\* validation error message (not the generator's text), and the metadata
\* records no orderStatusChanged.
C3_InvalidFinalizeIsOverridden ==
  (/\ Returned
   /\ InOrder.status = "pending"
   /\ last.userText \in FinalizeTexts
   /\ HasUnavailableLine(InOrder, TurnMenu))
    => LET errs == ValidateOrder(InOrder, TurnMenu).errors
       IN /\ OutOrder.status = "pending"
          /\ OutTurn.role = "assistant"
          /\ OutTurn.content =
               OverridePrefix
               \o JoinMessages([i \in 1..Len(errs) |-> errs[i].message])
          /\ \A i \in 1..Len(errs) : Includes(OutTurn.content, errs[i].message)
          /\ \E i \in 1..Len(errs) : errs[i].code = "ITEM_UNAVAILABLE"
          /\ ~Includes(OutTurn.content, last.ai.content)
          /\ "orderStatusChanged" \notin DOMAIN OutTurn.metadata

C3_Witness ==
  /\ Returned
  /\ InOrder.status = "pending"
  /\ last.userText = TextConfirm
  /\ HasUnavailableLine(InOrder, TurnMenu)
  /\ Len(ValidateOrder(InOrder, TurnMenu).errors) >= 3
  /\ OutOrder.status = "pending"

\* C4: the order status never regresses: the only change either operation
\* makes is pending -> confirmed (advanceConversation), and a confirmed,
\* preparing, ready, completed or cancelled order keeps its status, through
\* advanceConversation and through validateOrder.
C4_StatusNeverRegresses ==
  /\ Returned =>
       \/ OutOrder.status = InOrder.status
       \/ InOrder.status = "pending" /\ OutOrder.status = "confirmed"
  /\ IsAdvance =>
       \/ conv.currentOrder.status = InOrder.status
       \/ InOrder.status = "pending" /\ conv.currentOrder.status = "confirmed"
  /\ last.op = "validate" =>
       /\ last.result.validatedOrder.status = last.order.status
       /\ conv.currentOrder.status = last.order.status

C4_Witness ==
  /\ Returned
  /\ now = 2
  /\ InOrder.status = "cancelled"
  /\ last.userText \in FinalizeTexts
  /\ ValidateOrder(InOrder, TurnMenu).isValid
  /\ OutOrder.status = "cancelled"

\* C5: a successful call returns the input history followed by exactly two
\* new turns, a user turn with the user text and then an assistant turn;
\* the earlier turns are kept as they were, so the history of a conversation
\* that started empty is even in length and alternates user, assistant.
C5_HistoryAppendOnly ==
  /\ Returned =>
       LET h == OutState.history
           n == Len(InState.history)
       IN /\ Len(h) = n + 2
          /\ SubSeq(h, 1, n) = InState.history
          /\ h[n + 1].role = "user" /\ h[n + 1].content = last.userText
          /\ h[n + 2].role = "assistant"
  /\ Len(conv.history) % 2 = 0
  /\ Len(conv.history) <= 2 * now
  /\ \A i \in 1..Len(conv.history) :
       conv.history[i].role = IF i % 2 = 1 THEN "user" ELSE "assistant"

C5_Witness ==
  /\ Returned
  /\ Len(InState.history) = 2
  /\ Len(conv.history) = 4
  /\ conv.history[1].content # conv.history[3].content

\* C6: when the reply generator fails, advanceConversation throws a
\* ConversationError with code AI_SERVICE_ERROR and returns no state; the
\* state the caller holds after the call is the one it passed in, and every
\* state that is returned carries the generator's turn.
C6_GeneratorFailureIsFatal ==
  /\ (IsAdvance /\ ~last.ai.ok) =>
       /\ last.out.kind = "error"
       /\ last.out.name = "ConversationError"
       /\ last.out.code = "AI_SERVICE_ERROR"
       /\ "state" \notin DOMAIN last.out
       /\ conv = InState
  /\ Returned =>
       /\ last.ai.ok
       /\ OutTurn.role = "assistant"
       /\ Len(OutState.history) = Len(InState.history) + 2

C6_Witness ==
  /\ IsAdvance /\ ~last.ai.ok
  /\ last.fetch.ok /\ last.userText = TextTwoBurgers
  /\ last.out.kind = "error"
  /\ conv = InState

\* C7 (as claimed): when the menu fetch fails during a turn,
\* advanceConversation signals an error instead of returning a state built
\* with an empty menu.
C7_MenuFailureIsFatal ==
  (IsAdvance /\ ~last.fetch.ok) => last.out.kind = "error"

\* C7 (amended): when the menu fetch fails during a turn and the reply
\* generator succeeds, advanceConversation returns a state built with an
\* empty menu: no line is added or changed, the totals are the incoming
\* ones, no itemAdded is recorded, and a pending order with a finalize text
\* is confirmed exactly when it has no lines.
C7_MenuFailureTolerated ==
  (IsAdvance /\ ~last.fetch.ok /\ last.ai.ok) =>
    /\ last.out.kind = "state"
    /\ OutOrder.items = InOrder.items
    /\ OutOrder.subtotal = InOrder.subtotal
    /\ OutOrder.tax = InOrder.tax
    /\ OutOrder.total = InOrder.total
    /\ "itemAdded" \notin DOMAIN OutTurn.metadata
    /\ (InOrder.status = "pending" /\ last.userText \in FinalizeTexts) =>
         (OutOrder.status = "confirmed" <=> InOrder.items = <<>>)

C7_Witness ==
  /\ Returned /\ ~last.fetch.ok
  /\ last.userText = TextTwoBurgers
  /\ InOrder.items # <<>>

\* the price the menu gives a validated line: the base price of its menu
\* item plus the menu's adjustments of the options the line selects
MenuOption(menu, line, mod) ==
  LET item == menu[CHOOSE k \in 1..Len(menu) : menu[k].id = line.menuItemId]
      g == CHOOSE g \in 1..Len(item.modifierGroups) :
             item.modifierGroups[g].id = mod.groupId
      group == item.modifierGroups[g]
  IN group.options[CHOOSE o \in 1..Len(group.options) :
                     group.options[o].id = mod.optionId]

MenuUnitPrice(menu, line) ==
  menu[CHOOSE k \in 1..Len(menu) : menu[k].id = line.menuItemId].basePrice
  + SumSeq([k \in 1..Len(line.selectedModifiers) |->
              MenuOption(menu, line, line.selectedModifiers[k]).priceAdjustment])

\* C8: two orders that differ only in the client-declared unit prices,
\* modifier names, modifier price adjustments or totals get the same lines
\* and totals from validateOrder against the same menu, and each output
\* line's unit price is the menu's base price plus the menu's adjustments of
\* its selected options.
C8_ClientPricesIgnored ==
  last.op = "validate2" =>
    LET v == last.result.validatedOrder
        w == last.result2.validatedOrder
    IN /\ v.items = w.items
       /\ v.subtotal = w.subtotal /\ v.tax = w.tax /\ v.total = w.total
       /\ \A i \in 1..Len(v.items) :
            /\ v.items[i].unitPrice = MenuUnitPrice(last.menu, v.items[i])
            /\ \A k \in 1..Len(v.items[i].selectedModifiers) :
                 LET m == v.items[i].selectedModifiers[k]
                     o == MenuOption(last.menu, v.items[i], m)
                 IN m.name = o.name /\ m.priceAdjustment = o.priceAdjustment

C8_Witness ==
  /\ last.op = "validate2"
  /\ last.result.isValid
  /\ Len(last.order.items) = 2
  /\ last.order.items[1].selectedModifiers # <<>>
  /\ last.order.items[1].unitPrice # last.tampered.items[1].unitPrice
  /\ last.tampered.items[1].unitPrice
       # last.result2.validatedOrder.items[1].unitPrice
  /\ last.order.total # last.tampered.total

\* C9: the validatedOrder of validateOrder has total = subtotal + tax and
\* subtotal = the sum over its lines of unitPrice x quantity, and its tax is
\* the subtotal times the tax rate, rounded to the cent.
C9_ValidatedTotals ==
  last.op \in {"validate", "validate2"} =>
    LET v == last.result.validatedOrder
    IN /\ v.total = v.subtotal + v.tax
       /\ v.subtotal = LineSubtotal(v.items)
       /\ 100 * v.tax - TaxRatePercent * v.subtotal \in -50..50

C9_Witness ==
  /\ last.op = "validate"
  /\ Len(last.result.validatedOrder.items) = 2
  /\ (TaxRatePercent * last.result.validatedOrder.subtotal) % 100 > 50
  /\ last.order.total # last.result.validatedOrder.total

\* C10: in every state advanceConversation returns, whatever totals the
\* incoming state carried, the order's subtotal is the sum over its lines
\* of unitPrice x quantity and its total is subtotal + tax.
C10_ReturnedTotalsDerived ==
  Returned =>
    /\ OutOrder.subtotal = LineSubtotal(OutOrder.items)
    /\ OutOrder.total = OutOrder.subtotal + OutOrder.tax

\* ------------------------------------------------- claims on the validator
\* the errors of a result that are about the line with this id
LineErrors(errors, id) == SelectSeq(errors, LAMBDA e : e.itemId = id)

\* the position of the line's menu item in the menu, 0 when it has none
MenuIndex(menu, line) == FindFirst(menu, LAMBDA m : m.id = line.menuItemId)

\* the position of the line with this id among the lines, 0 without one
LineIndex(items, id) == FindFirst(items, LAMBDA l : l.id = id)

\* how many options of the group the line selects
SelectionsIn(line, group) ==
  Len(SelectSeq(line.selectedModifiers, LAMBDA m : m.groupId = group.id))

\* C11: when a line references a menu item id that is not in the menu,
\* validateOrder reports exactly one item-not-found error for that line and
\* nothing else about it, and the line is in validatedOrder.items at the
\* same position with the same fields, so the output has as many lines as
\* the input.
C11_NotFoundLineCarriedThrough ==
  last.op = "validate" =>
    \A i \in 1..Len(last.order.items) :
      LET line == last.order.items[i]
      IN MenuIndex(last.menu, line) = 0 =>
           /\ Len(LineErrors(last.result.errors, line.id)) = 1
           /\ LineErrors(last.result.errors, line.id)[1].code = "ITEM_NOT_FOUND"
           /\ Len(last.result.validatedOrder.items) = Len(last.order.items)
           /\ last.result.validatedOrder.items[i] = line

\* C12: when a line references a menu item that exists but is unavailable,
\* validateOrder reports item-unavailable first and then exactly the
\* modifier defects the line would have were the item available (a
\* selection count under the minimum or over the maximum of a group among
\* them), and the line is in validatedOrder with the menu's name and the
\* menu's price.
C12_UnavailableItemStillChecked ==
  last.op = "validate" =>
    \A i \in 1..Len(last.order.items) :
      LET line == last.order.items[i]
          k == MenuIndex(last.menu, line)
      IN (k # 0 /\ ~last.menu[k].isAvailable) =>
           LET errs == LineErrors(last.result.errors, line.id)
               menuA == [last.menu EXCEPT ![k].isAvailable = TRUE]
               items == last.result.validatedOrder.items
               j == LineIndex(items, line.id)
               groups == last.menu[k].modifierGroups
           IN /\ errs # <<>>
              /\ errs[1].code = "ITEM_UNAVAILABLE"
              /\ \A e \in 2..Len(errs) : errs[e].code # "ITEM_UNAVAILABLE"
              /\ Tail(errs)
                   = LineErrors(ValidateOrder(last.order, menuA).errors, line.id)
              /\ \A g \in 1..Len(groups) :
                   /\ SelectionsIn(line, groups[g]) > groups[g].maxSelection
                        => \E e \in 2..Len(errs) : errs[e].code = "MODIFIER_INVALID"
                   /\ SelectionsIn(line, groups[g]) < groups[g].minSelection
                        => \E e \in 2..Len(errs) : errs[e].code = "MODIFIER_REQUIRED"
              /\ j # 0
              /\ items[j].name = last.menu[k].name
              /\ items[j].quantity = line.quantity
              /\ items[j].unitPrice = MenuUnitPrice(last.menu, items[j])

C12_Witness ==
  /\ last.op = "validate"
  /\ \E i \in 1..Len(last.order.items) :
       LET line == last.order.items[i]
           k == MenuIndex(last.menu, line)
           errs == LineErrors(last.result.errors, line.id)
           items == last.result.validatedOrder.items
       IN /\ k # 0 /\ ~last.menu[k].isAvailable
          /\ Len(errs) = 2 /\ errs[2].code = "MODIFIER_INVALID"
          /\ SelectionsIn(line, last.menu[k].modifierGroups[1]) = 2
          /\ items[LineIndex(items, line.id)].selectedModifiers[1].priceAdjustment
               # line.selectedModifiers[1].priceAdjustment

\* a modifier group that asks for exactly one selection
IsSingleChoice(group) == group.minSelection = 1 /\ group.maxSelection = 1

C15_ValidationIdempotent ==
  (last.op = "revalidate" /\ last.first.isValid) =>
    /\ last.result.isValid
    /\ last.result.errors = <<>>
    /\ last.result.validatedOrder.items = last.first.validatedOrder.items
    /\ last.result.validatedOrder.subtotal = last.first.validatedOrder.subtotal
    /\ last.result.validatedOrder.tax = last.first.validatedOrder.tax
    /\ last.result.validatedOrder.total = last.first.validatedOrder.total

C15_Witness ==
  /\ last.op = "revalidate" /\ last.first.isValid
  /\ Len(last.order.items) = 2
  /\ last.order.items[1].selectedModifiers # <<>>
  /\ last.order.subtotal # conv.currentOrder.subtotal
  /\ last.result.validatedOrder = last.order

Is503(outcome) == outcome.kind = "http" /\ outcome.status = 503
IsUnreachable(outcome) == outcome.kind = "throw" /\ outcome.error = FetchFailed
SubDoneNow == sub.pc = "done"
SubCode == sub.result.error.code

\* C17: submitOrder makes at most 4 requests per call (1 attempt and at
\* most 3 retries) whatever the endpoint does; when the endpoint answers
\* 503 three times and then succeeds with a confirmation id, the result is
\* success after exactly 4 requests; when it answers 503 four times, the
\* result is a failure after exactly 3 retries and 4 requests.
C17_RetryBudget ==
  sub.pc # "idle" =>
    /\ Len(sub.history) <= maxRetries + 1
    /\ Len(sub.slept) <= maxRetries
    /\ (Len(sub.history) >= 3 /\ \A i \in 1..3 : Is503(sub.history[i])) =>
         /\ Len(sub.slept) >= 3
         /\ sub.pc = "loop" => Len(sub.history) = 3
         /\ SubDoneNow =>
              /\ Len(sub.history) = 4 /\ Len(sub.slept) = 3
              /\ (/\ sub.history[4].kind = "http"
                  /\ sub.history[4].status = 200
                  /\ sub.history[4].body.kind = "object"
                  /\ sub.history[4].body.confirmationId # "") =>
                   /\ sub.result.success
                   /\ sub.result.data.confirmationId
                        = sub.history[4].body.confirmationId
              /\ Is503(sub.history[4]) =>
                   /\ ~sub.result.success
                   /\ sub.history[4].body.kind # "null"
                        => SubCode = <<"HTTP_", "503">>
                   /\ sub.history[4].body.kind = "null"
                        => SubCode = <<"NETWORK_ERROR">>

C17_Witness ==
  /\ SubDoneNow
  /\ Len(sub.history) = 4
  /\ \A i \in 1..3 : Is503(sub.history[i])
  /\ sub.result.success
  /\ sub.slept = <<1000, 2000, 4000>>

\* C18: a non-success response is retried only if its status is 5xx or 429
\* and retry budget remains; every other non-success response, whatever
\* its body, ends the call at once with a failure of code HTTP_<status>
\* that carries the upstream message and details, with no sleep and no
\* further request.
C18_NonTransientIsTerminal ==
  sub.pc # "idle" =>
    \A i \in 1..Len(sub.history) :
      LET o == sub.history[i]
      IN (o.kind = "http" /\ o.status \notin 200..299) =>
           /\ Len(sub.slept) >= i => (IsTransient(o.status) /\ i <= maxRetries)
           /\ ~(IsTransient(o.status) /\ i <= maxRetries) =>
                /\ SubDoneNow
                /\ Len(sub.history) = i
                /\ Len(sub.slept) = i - 1
                /\ ~sub.result.success
                /\ SubCode = <<"HTTP_", ToString(o.status)>>
                /\ o.body.kind = "object" =>
                     /\ sub.result.error.details = o.body
                     /\ o.body.message # <<>>
                          => sub.result.error.message = o.body.message

\* C19: a transport-level failure of the request (the endpoint cannot be
\* reached) is retried under the same attempt budget as the HTTP transient
\* failures, one counter for both; once the budget is used up the call
\* returns a failure with code NETWORK_ERROR; every call that ends, ends
\* with a result.
C19_TransportFailureRetried ==
  sub.pc # "idle" =>
    /\ sub.attempt = Len(sub.slept)
    /\ sub.pc = "loop" => Len(sub.history) = sub.attempt
    /\ (SubDoneNow /\ sub.history # <<>>) => Len(sub.history) = sub.attempt + 1
    /\ \A i \in 1..Len(sub.history) :
         IsUnreachable(sub.history[i]) =>
           IF i <= maxRetries
           THEN Len(sub.slept) >= i
           ELSE /\ SubDoneNow
                /\ ~sub.result.success
                /\ SubCode = <<"NETWORK_ERROR">>
                /\ sub.result.error.message = FetchFailed.message
    /\ SubDoneNow => (sub.result.success \/ SubCode # <<>>)

C19_Witness ==
  /\ SubDoneNow
  /\ Len(sub.history) = 4
  /\ Is503(sub.history[1])
  /\ IsUnreachable(sub.history[2])
  /\ sub.history[3].kind = "http" /\ sub.history[3].status = 429
  /\ IsUnreachable(sub.history[4])
  /\ SubCode = <<"NETWORK_ERROR">>

\* C20: a 2xx response without the confirmation identifier, whatever the
\* rest of its body, ends the call at once with a failure of code
\* INVALID_RESPONSE: it is not retried, so no further request is made in
\* that call.
C20_MissingConfirmationIsTerminal ==
  sub.pc # "idle" =>
    \A i \in 1..Len(sub.history) :
      LET o == sub.history[i]
      IN (/\ o.kind = "http" /\ o.status \in 200..299
          /\ (o.body.kind # "object" \/ o.body.confirmationId = "")) =>
           /\ SubDoneNow
           /\ Len(sub.history) = i
           /\ ~sub.result.success
           /\ SubCode = <<"INVALID_RESPONSE">>

\* initialDelayMs * backoffFactor^(k-1): the delay before the k-th retry
RECURSIVE BackoffDelay(_)
BackoffDelay(k) ==
  IF k <= 1 THEN initialDelayMs ELSE BackoffDelay(k - 1) * backoffFactor

\* C21: every retry of submitOrder is preceded by exactly one sleep of the
\* current delay, after which the delay is multiplied by the backoff
\* factor: the k-th retry waits 1000, 2000, 4000 ms (no jitter); a call
\* still in its loop has slept once per request made, and a call that has
\* returned has slept once per request but the last, so that no sleep
\* follows the last attempt or precedes a terminal return.
C21_BackoffSchedule ==
  sub.pc # "idle" =>
    /\ Len(sub.slept) <= maxRetries
    /\ sub.slept = [k \in 1..Len(sub.slept) |-> BackoffDelay(k)]
    /\ \A k \in 1..Len(sub.slept) : sub.slept[k] = <<1000, 2000, 4000>>[k]
    /\ sub.attempt = Len(sub.slept)
    /\ sub.currentDelay = BackoffDelay(Len(sub.slept) + 1)
    /\ sub.pc = "loop" => Len(sub.slept) = Len(sub.history)
    /\ (SubDoneNow /\ sub.history # <<>>) =>
         Len(sub.slept) = Len(sub.history) - 1
    /\ (SubDoneNow /\ sub.history = <<>>) => sub.slept = <<>>

C21_Witness ==
  /\ SubDoneNow
  /\ ~sub.result.success
  /\ Len(sub.history) = 4
  /\ \A i \in 1..4 : IsUnreachable(sub.history[i])
  /\ sub.slept = <<1000, 2000, 4000>>
  /\ sub.currentDelay = 8000

\* ---------------------------------------------------- claims on the mutator
\* what the Matcher finds for the last call: the index in the turn's menu of
\* the first item the text matches (0: none) and the extracted quantity
MatchedIndex ==
  FindFirst(TurnMenu, LAMBDA item : MatchesMenuItemIn(last.userText, item.name))
Matched == TurnMenu[MatchedIndex]
MatchedQuantity == ExtractQuantityIn(last.userText, Matched.name)
\* the index of the first line of the incoming order that references the
\* matched item and has no modifiers (0: none)
MergeIndex ==
  FindFirst(InOrder.items,
            LAMBDA item : /\ item.menuItemId = Matched.id
                          /\ Len(item.selectedModifiers) = 0)
LineIds(items) == {items[i].id : i \in 1..Len(items)}

\* C22: when the matched item's id equals the menuItemId of an existing line
\* with zero selected modifiers, the line count is unchanged and only that
\* line's quantity grows, by the extracted quantity; otherwise exactly one
\* line is appended at the end, with a fresh line id, that quantity, the
\* item's base price as unit price and no modifiers.
C22_MergeRule ==
  (Returned /\ MatchedIndex # 0) =>
    IF MergeIndex # 0
    THEN /\ Len(OutOrder.items) = Len(InOrder.items)
         /\ \A i \in 1..Len(InOrder.items) :
              OutOrder.items[i] =
                IF i = MergeIndex
                THEN [InOrder.items[i] EXCEPT
                        !.quantity = @ + MatchedQuantity]
                ELSE InOrder.items[i]
    ELSE /\ Len(OutOrder.items) = Len(InOrder.items) + 1
         /\ SubSeq(OutOrder.items, 1, Len(InOrder.items)) = InOrder.items
         /\ LET line == OutOrder.items[Len(OutOrder.items)]
            IN /\ line.id \notin LineIds(InOrder.items)
               /\ line.menuItemId = Matched.id
               /\ line.quantity = MatchedQuantity
               /\ line.unitPrice = Matched.basePrice
               /\ line.selectedModifiers = <<>>

\* C23: after the Mutator adds or merges an item, the new subtotal is the
\* sum of unitPrice x quantity over all lines, the new tax is that subtotal
\* times the prior effective tax rate (prior tax / prior subtotal, to the
\* nearest cent; 0 when the prior subtotal was 0), and the new total is
\* subtotal + tax.
C23_MutatorTotals ==
  (Returned /\ MatchedIndex # 0) =>
    /\ OutOrder.subtotal = LineSubtotal(OutOrder.items)
    /\ InOrder.subtotal = 0 => OutOrder.tax = 0
    /\ InOrder.subtotal > 0 =>
         LET exact == OutOrder.subtotal * InOrder.tax
             diff == OutOrder.tax * InOrder.subtotal - exact
         IN /\ 2 * diff <= InOrder.subtotal
            /\ 2 * diff >= 0 - InOrder.subtotal
    /\ OutOrder.total = OutOrder.subtotal + OutOrder.tax

C23_Witness ==
  /\ Returned /\ MatchedIndex # 0
  /\ InOrder.subtotal > 0
  /\ InOrder.tax * 100 # InOrder.subtotal * TaxRatePercent
  /\ OutOrder.tax > InOrder.tax
  /\ OutOrder.subtotal > InOrder.subtotal

\* C24: when the user text matches no menu item, or the menu is empty, the
\* turn is not an error (it throws only if the reply generator fails) and
\* the order of the returned state has the lines, quantities, unit prices,
\* subtotal, tax and total of the incoming order, and the assistant turn's
\* metadata records no itemAdded.
C24_NoMatchLeavesOrder ==
  (IsAdvance /\ MatchedIndex = 0) =>
    /\ last.ai.ok => Returned
    /\ Returned =>
         /\ OutOrder.items = InOrder.items
         /\ OutOrder.subtotal = InOrder.subtotal
         /\ OutOrder.tax = InOrder.tax
         /\ OutOrder.total = InOrder.total
         /\ "itemAdded" \notin DOMAIN OutTurn.metadata

C24_Witness ==
  /\ Returned /\ MatchedIndex = 0
  /\ Len(TurnMenu) > 0
  /\ Len(InOrder.items) = 2
  /\ InOrder.subtotal # LineSubtotal(InOrder.items)
  /\ OutOrder.status # InOrder.status

\* --------------------------------------------------- claims on the matcher
IsMatch == last.op = "match"
MatchedItem == last.menu[last.index]
\* the line of the returned order that the utterance added or merged into
AddedLine ==
  LET items == last.update.order.items
  IN items[FindFirst(items, LAMBDA item : item.id = last.update.addedItem.id)]

\* C25: given the utterance "two cheeseburgers" and a catalog in which
\* "Cheeseburger" is the entry found, the quantity is 2 and the Mutator's
\* line has quantity 2 (on an empty order); given "cheeseburger" with no
\* number the quantity is 1; in every case the extracted quantity is an
\* integer >= 1.
C25_TwoCheeseburgers ==
  (IsMatch /\ last.index # 0) =>
    /\ last.quantity \in Nat /\ last.quantity >= 1
    /\ MatchedItem.id = "cheeseburger" =>
         /\ last.userText = TextCheeseburger => last.quantity = 1
         /\ last.userText = TextTwoCheeseburgers =>
              /\ last.quantity = 2
              /\ last.order.items = <<>> => AddedLine.quantity = 2

\* the catalog entries the matching policy accepts for the last utterance:
\* the full lower-cased name, or a name token of at least 3 characters, is
\* a substring of the lower-cased utterance
MatchingEntries ==
  LET text == ToLowerCase(last.userText)
  IN {i \in 1..Len(last.menu) :
        LET name == ToLowerCase(last.menu[i].name)
            tokens == SplitTokens(name)
        IN \/ Includes(text, name)
           \/ \E k \in 1..Len(tokens) :
                Len(tokens[k]) >= 3 /\ Includes(text, tokens[k])}

\* C26: the Matcher returns at most one item per utterance: the first
\* catalog entry, in catalog order, whose full lower-cased name is a
\* substring of the utterance or one of whose name tokens of length >= 3 is;
\* a later entry never wins over an earlier matching one, and no item is
\* returned (and no line added) when none matches.
C26_FirstMatchWins ==
  IsMatch =>
    /\ MatchingEntries = {} =>
         /\ last.index = 0
         /\ last.update.addedItem = NoItem
         /\ last.update.order = last.order
    /\ MatchingEntries # {} =>
         /\ last.index \in MatchingEntries
         /\ \A j \in MatchingEntries : last.index <= j
         /\ last.update.addedItem.menuItemId = MatchedItem.id
         /\ AddedLine.menuItemId = MatchedItem.id
         /\ \A i \in 1..Len(last.update.order.items) :
              \/ i <= Len(last.order.items)
                   /\ last.update.order.items[i].menuItemId
                        = last.order.items[i].menuItemId
              \/ /\ i = Len(last.order.items) + 1
                 /\ i = Len(last.update.order.items)
                 /\ last.update.order.items[i].menuItemId = MatchedItem.id

C26_Witness ==
  /\ IsMatch
  /\ Cardinality(MatchingEntries) >= 2
  /\ last.index = 1
  /\ MatchedItem.id = "fries_side"
  /\ ~Includes(ToLowerCase(last.userText), ToLowerCase(MatchedItem.name))
  /\ Len(last.update.order.items) = Len(last.order.items) + 1

\* ------------------------------------------- claims on concurrent callers
IsTurn == last.op = "turn"

IsOrderRequest == last.op = "order"
\* something has been, or is about to be, sent to the fulfillment endpoint
Submitting == sub.pc # "idle"

\* C28: on POST /api/order the order is validated before anything is sent:
\* submitOrder is called at most once per request, only after validateOrder
\* returned valid with zero errors, and with the validatedOrder, repriced
\* from the menu, not the client's body; an order that is invalid or has no
\* items is answered with an error and never reaches the endpoint.
C28_ValidatedBeforeSubmitted ==
  IsOrderRequest =>
    /\ last.calls <= 1
    /\ (Submitting \/ last.calls = 1) =>
         /\ last.body.kind = "json"
         /\ last.body.order.items # <<>>
         /\ last.validated
         /\ ValidateOrder(last.body.order, CURRENT_MENU).isValid
         /\ ValidateOrder(last.body.order, CURRENT_MENU).errors = <<>>
         /\ sub.order = ValidateOrder(last.body.order, CURRENT_MENU).validatedOrder
         /\ \A i \in 1..Len(sub.order.items) :
              sub.order.items[i].unitPrice
                = MenuUnitPrice(CURRENT_MENU, sub.order.items[i])
    /\ (\/ last.body.kind = "notjson"
        \/ last.body.order.items = <<>>
        \/ ~ValidateOrder(last.body.order, CURRENT_MENU).isValid) =>
         /\ ~Submitting
         /\ last.calls = 0
         /\ last.pc = "done"
         /\ last.response.status = 400

C28_Witness ==
  /\ IsOrderRequest /\ last.pc = "done"
  /\ last.response.status = 200
  /\ last.calls = 1
  /\ Len(sub.history) = 2
  /\ sub.order # last.body.order
  /\ sub.order.total = 1188

\* C29: advanceConversation and the Mutator never modify the
\* ConversationState they are given: after the call the input's history,
\* order, lines and status are what they were before it, every change (new
\* turns, merged quantity, new line, confirmed status) is in the returned
\* value only, and the returned conversationId is the input's.
C29_InputStateUntouched ==
  IsAdvance =>
    /\ last.out.input = last.state
    /\ last.out.input.history = last.state.history
    /\ last.out.input.currentOrder.items = InOrder.items
    /\ last.out.input.currentOrder.status = InOrder.status
    /\ Returned => OutState.conversationId = InState.conversationId

C29_Witness ==
  /\ Returned
  /\ MatchedIndex = 0
  /\ InOrder.status = "pending"
  /\ OutOrder.status = "confirmed"
  /\ last.out.input.currentOrder.status = "pending"
  /\ Len(OutState.history) = Len(last.out.input.history) + 2

\* C30: every line of an order that validateOrder reports valid has an
\* integer quantity >= 1, so that a valid order has no zero or negative
\* line quantity and no negative subtotal.
C30_ValidQuantitiesPositive ==
  (IsOrderRequest /\ last.validated /\ last.validation.isValid) =>
    /\ \A i \in 1..Len(last.validation.validatedOrder.items) :
         /\ last.validation.validatedOrder.items[i].quantity \in Nat
         /\ last.validation.validatedOrder.items[i].quantity >= 1
    /\ last.validation.validatedOrder.subtotal >= 0

\* the menu's option for a selection of a line of menu item menuDef: the
\* option of that id in the group of that id; NoItem when the group or the
\* option is not there
SelectedOption(menuDef, mod) ==
  LET g == FindFirst(menuDef.modifierGroups, LAMBDA gr : gr.id = mod.groupId)
      o == IF g = 0 THEN 0
           ELSE FindFirst(menuDef.modifierGroups[g].options,
                          LAMBDA op : op.id = mod.optionId)
  IN IF o = 0 THEN NoItem ELSE menuDef.modifierGroups[g].options[o]

\* the adjustments of the line's selections that are options of their group
\* and available
ValidAdjustments(menuDef, line) ==
  SumSeq([s \in 1..Len(line.selectedModifiers) |->
            LET optionDef == SelectedOption(menuDef, line.selectedModifiers[s])
            IN IF optionDef # NoItem /\ optionDef.isAvailable
               THEN optionDef.priceAdjustment ELSE 0])

\* C31: the unit price of a validated line is the menu item's base price
\* plus the adjustments of the valid selected options only: a selected
\* option that is missing from its group or is unavailable yields a
\* modifier-invalid error and adds nothing to the unit price.
C31_OnlyValidOptionsPriced ==
  last.op = "validate" =>
    \A i \in 1..Len(last.order.items) :
      LET line == last.order.items[i]
          k == MenuIndex(last.menu, line)
          items == last.result.validatedOrder.items
          j == LineIndex(items, line.id)
      IN (k # 0 /\ j # 0) =>
           /\ items[j].unitPrice
                = last.menu[k].basePrice + ValidAdjustments(last.menu[k], line)
           /\ \A s \in 1..Len(line.selectedModifiers) :
                LET mod == line.selectedModifiers[s]
                    optionDef == SelectedOption(last.menu[k], mod)
                    inGroup == \E g \in 1..Len(last.menu[k].modifierGroups) :
                                 last.menu[k].modifierGroups[g].id = mod.groupId
                IN (inGroup /\ (optionDef = NoItem \/ ~optionDef.isAvailable)) =>
                     \E e \in 1..Len(last.result.errors) :
                       /\ last.result.errors[e].itemId = line.id
                       /\ last.result.errors[e].code = "MODIFIER_INVALID"

\* the order without the selections whose group is not a modifier group of
\* the line's menu item
WithoutForeignSelections(order, menu) ==
  [order EXCEPT !.items =
     [i \in 1..Len(order.items) |->
        LET line == order.items[i]
            k == MenuIndex(menu, line)
        IN IF k = 0 THEN line
           ELSE [line EXCEPT !.selectedModifiers =
                   SelectSeq(@, LAMBDA mod :
                     \E g \in 1..Len(menu[k].modifierGroups) :
                       menu[k].modifierGroups[g].id = mod.groupId)]]]

\* C32: a selected modifier whose group id is not one of the menu item's
\* modifier groups produces no validation error: validateOrder leaves it
\* out of the validated line and of the unit price, so that the result is
\* the result for the order without such selections, and an order carrying
\* one can be reported valid.
C32_ForeignGroupIgnored ==
  last.op = "validate" =>
    /\ last.result.errors
         = ValidateOrder(WithoutForeignSelections(last.order, last.menu),
                         last.menu).errors
    /\ last.result.validatedOrder
         = ValidateOrder(WithoutForeignSelections(last.order, last.menu),
                         last.menu).validatedOrder
    /\ \A j \in 1..Len(last.result.validatedOrder.items) :
         LET line == last.result.validatedOrder.items[j]
             k == MenuIndex(last.menu, line)
         IN \A s \in 1..Len(line.selectedModifiers) :
              \E g \in 1..Len(last.menu[k].modifierGroups) :
                last.menu[k].modifierGroups[g].id
                  = line.selectedModifiers[s].groupId

C32_Witness ==
  /\ last.op = "validate"
  /\ WithoutForeignSelections(last.order, last.menu) # last.order
  /\ last.result.isValid
  /\ last.result.errors = <<>>
  /\ Len(last.result.validatedOrder.items) = 1
  /\ last.result.validatedOrder.items[1].selectedModifiers = <<>>
  /\ last.result.validatedOrder.items[1].unitPrice = 400


\* C33: an order with zero lines is reported valid by validateOrder for
\* every menu (no errors, totals 0), so a finalize-intent turn on an empty
\* pending order whose text matches no menu item returns the order
\* confirmed and still empty, also when the menu fetch failed and the menu
\* of the turn is empty.
C33_EmptyOrderConfirmed ==
  (IsAdvance /\ InOrder.items = <<>>) =>
    /\ \A menu \in Menus \cup {<<>>, TurnMenu} :
         LET validation == ValidateOrder(InOrder, menu)
         IN /\ validation.isValid
            /\ validation.errors = <<>>
            /\ validation.validatedOrder.items = <<>>
            /\ validation.validatedOrder.subtotal = 0
            /\ validation.validatedOrder.tax = 0
            /\ validation.validatedOrder.total = 0
    /\ (/\ Returned
        /\ InOrder.status = "pending"
        /\ last.userText \in FinalizeTexts
        /\ MatchedIndex = 0)
         => /\ OutOrder.status = "confirmed"
            /\ OutOrder.items = <<>>
            /\ OutTurn.content = last.ai.content
            /\ "orderStatusChanged" \in DOMAIN OutTurn.metadata

C33_Witness ==
  /\ Returned
  /\ InOrder.items = <<>>
  /\ InOrder.status = "pending"
  /\ last.userText = TextConfirm
  /\ ~last.fetch.ok
  /\ OutOrder.status = "confirmed"
  /\ OutOrder.items = <<>>


\* C34: the mutation step of advanceConversation does not depend on the
\* order status: a turn whose text matches a menu item adds or merges a
\* line and recomputes the totals exactly as it would for the same order
\* in status pending, also when the incoming status is confirmed,
\* preparing, ready, completed or cancelled; the lines of an order that is
\* already confirmed change in a later turn.
C34_MutationIgnoresStatus ==
  (Returned /\ MatchedIndex # 0) =>
    /\ OutOrder.items # InOrder.items
    /\ "itemAdded" \in DOMAIN OutTurn.metadata
    /\ \E up \in BOOLEAN :
         LET asPending ==
               AddQuantity(Matched, MatchedQuantity,
                           [InOrder EXCEPT !.status = "pending"],
                           last.clock, up).order
         IN /\ OutOrder.items = asPending.items
            /\ OutOrder.subtotal = asPending.subtotal
            /\ OutOrder.tax = asPending.tax
            /\ OutOrder.total = asPending.total
    /\ InOrder.status # "pending" => OutOrder.status = InOrder.status

\* an order confirmed by the first turn gets a line in the second
C34_Witness ==
  /\ Returned /\ MatchedIndex # 0
  /\ InOrder.status = "confirmed"
  /\ Len(InState.history) = 2
  /\ "orderStatusChanged" \in DOMAIN InState.history[2].metadata
  /\ Len(OutOrder.items) = Len(InOrder.items) + 1
  /\ OutOrder.subtotal > InOrder.subtotal
  /\ OutOrder.status = "confirmed"

\* every status other than pending meets a matching text
C34_WitnessStatuses ==
  /\ Returned /\ MatchedIndex # 0
  /\ InOrder.status = "cancelled"
  /\ OutOrder.items # InOrder.items


\* the lines of the incoming order whose quantity the call raised
RaisedLines ==
  {i \in 1..Len(InOrder.items) :
     OutOrder.items[i].quantity > InOrder.items[i].quantity}

\* C35: the orchestrator only grows the order: no advanceConversation call
\* removes a line, lowers a line's quantity or changes an existing line's
\* unit price or modifiers; each turn leaves the lines unchanged, raises
\* the quantity of one line by at least 1, or appends one line.
C35_OrderOnlyGrows ==
  Returned =>
    /\ Len(OutOrder.items) >= Len(InOrder.items)
    /\ \A i \in 1..Len(InOrder.items) :
         /\ OutOrder.items[i] =
              [InOrder.items[i] EXCEPT !.quantity = OutOrder.items[i].quantity]
         /\ OutOrder.items[i].quantity >= InOrder.items[i].quantity
    /\ \/ OutOrder.items = InOrder.items
       \/ /\ Len(OutOrder.items) = Len(InOrder.items)
          /\ Cardinality(RaisedLines) = 1
       \/ /\ Len(OutOrder.items) = Len(InOrder.items) + 1
          /\ RaisedLines = {}


\* C36: starting from createInitialState, after any sequence of successful
\* advanceConversation turns the order's tax is 0 and its total equals its
\* subtotal: the Mutator reapplies the prior tax rate, 0 at the start, and
\* the order the Validator reprices is not adopted into the state.
C36_TaxStaysZero ==
  \A c \in Conversations :
    /\ conv[c].currentOrder.tax = 0
    /\ conv[c].currentOrder.total = conv[c].currentOrder.subtotal

\* a confirmed order with lines, which the Validator taxes, carries no tax
C36_Witness ==
  /\ IsTurn /\ last.out.kind = "state"
  /\ LET order == conv[last.conversation].currentOrder
     IN /\ order.status = "confirmed"
        /\ order.subtotal > 0
        /\ order.tax = 0
        /\ order.total = order.subtotal
        /\ ValidateOrder(order, MenuAll).validatedOrder.tax > 0


\* the failure codes a submitOrder call can end with
SubmitFailureCodes ==
  {<<"CONFIG_ERROR">>, <<"INVALID_RESPONSE">>, <<"NETWORK_ERROR">>}
  \cup {<<"HTTP_", ToString(st)>> : st \in EndpointStatuses}

C38_MenuCache ==
  /\ last.op = "fetchMenu" =>
       /\ last.requested <=>
            \/ ~last.cache.present
            \/ last.clock - last.cache.timestamp > 5 * 60 * 1000
       /\ ~last.requested =>
            /\ last.result = [ok |-> TRUE, menu |-> last.cache.data]
            /\ menuCache = last.cache
       /\ last.afterClear => last.requested
  /\ last.op = "fetchMenuAnswer" =>
       IF last.source.ok
       THEN /\ last.result = [ok |-> TRUE, menu |-> last.source.menu]
            /\ menuCache = CacheEntry(last.source.menu, last.clock)
       ELSE /\ ~last.result.ok /\ last.result.name = "MenuFetchError"
            /\ menuCache = last.cache


\* the lines of an order, as menu item and quantity
OrderedItems(order) ==
  {<<order.items[i].menuItemId, order.items[i].quantity>> :
     i \in 1..Len(order.items)}

\* C39: the kiosk page serializes the turns of its conversation: it never
\* has two POST /api/conversation requests in flight at once, so the state
\* a response was computed from is the state the page holds when the
\* response arrives (but for the user turn shown ahead of the response),
\* and no response removes an order line that another turn produced.
C39_TurnsSerialized ==
  /\ Cardinality(page.requests) <= 1
  /\ (last.op = "response" /\ last.response.status = 200) =>
       /\ last.request.state.currentOrder = last.before.currentOrder
       /\ \A line \in OrderedItems(last.before.currentOrder) :
            \E kept \in OrderedItems(conv.currentOrder) :
              kept[1] = line[1] /\ kept[2] >= line[2]


\* C40: when POST /api/order answers 200 for an order that was validated
\* and successfully submitted, the kiosk page takes its success flow: it
\* announces that the order was placed, resets the conversation state for
\* the next customer, and reports no submission failure.
C40_PlacedOrderAnnounced ==
  (/\ last.op = "order" /\ last.pc = "done"
   /\ last.body.kind = "json" /\ Len(last.body.order.items) > 0
   /\ ~page.isSubmittingOrder
   /\ last.response.status = 200
   /\ last.validation.isValid
   /\ sub.pc = "done" /\ sub.result.success)
    => /\ page.assistantResponse = "Your order has been placed successfully!"
       /\ page.error = ""
       /\ conv.history = <<>> /\ conv.currentOrder.items = <<>>
       /\ conv.currentOrder.status = "pending"

====
